---- MODULE Spec2Model ----
(***************************************************************************)
(* Model of the repository-state engine of interactive-graphite-log:      *)
(* Repository (addons/isl-server/src/Repository.ts), WatchForChanges and  *)
(* the operation queue it drives.                                         *)
(*                                                                         *)
(* One step of the model is one event-loop turn: the handler of an        *)
(* external event (an API call, a process exit, a timer, a file           *)
(* notification) together with every promise continuation it resolves.    *)
(* A handler is a function from program state to program state, so that   *)
(* handlers compose in the order the code calls them.                     *)
(***************************************************************************)
EXTENDS Integers, Sequences, FiniteSets, TLC

\* ------------------------------------------------------------------ bounds

\* Number of distinct operations the UI submits, in all and while time passes.
MaxOps == 3
MaxOpsHoldOff == 2
\* Clock horizons in milliseconds.
MaxTimeHoldOff == 15000
MaxTimeFetch == 5000
\* Executions of one fetch body that may be in flight before the model stops
\* adding more (at most one under the single-flight wrapper).
MaxInflight == 2
\* Subscribers that come and go, besides the Repository's own listener.
MaxSubs == 2
\* Clock horizon, in milliseconds, and number of unanswered notifications
\* while debounce timers run.
MaxTimeDebounce == 250
MaxNotified == 3
\* Clock horizon, in milliseconds, while working-tree events are throttled.
MaxTimeThrottle == 65000
\* Events counted within one throttle stage.
MaxSeen == 10
\* Clock horizon, in milliseconds, while the poll timer runs.
MaxTimePoll == 930000
\* Clock horizon, in milliseconds, while read commands run against their timeout.
MaxTimeCommand == 80000
\* Records in one output of git log.
MaxRecords == 2
\* Tokens in one refs decoration.
MaxRefs == 3
\* Lines of a name-status listing that vary, after its lines that do not.
MaxChangedLines == 2
\* Lines in one output of git status.
MaxStatusLines == 2
\* Observed uncommitted changes given to an operation that predicts them.
MaxObserved == 2
\* Arguments of an operation.
MaxArgs == 3
\* Chunks of output of the process of one operation.
MaxChunks == 2
\* Operations whose progress is followed.
MaxOpsProgress == 2
\* Paths given to findMaxCommonPathPrefix.
MaxPaths == 3
\* Records of a log output that is parsed, written out and parsed again.
MaxRoundTrip == 2
\* Lines that git status prints for a conflict check.
MaxConflictLines == 1
\* Calls of Repository.ref.
MaxRefCalls == 3
\* Operations run while the Repository is disposed.
MaxOpsDispose == 1
\* How long the watcher is followed through its disposal, in ms.
MaxTimeDispose == 45000

\* ------------------------------------------------------- program constants

ONE_MINUTE_MS == 60000
DEFAULT_POLL_INTERVAL == 15 * ONE_MINUTE_MS
HIDDEN_POLL_INTERVAL == 3 * 60 * ONE_MINUTE_MS
VISIBLE_POLL_INTERVAL == 2 * ONE_MINUTE_MS
FOCUSED_POLL_INTERVAL == ONE_MINUTE_MS \div 2
ON_FOCUS_REFETCH_THROTTLE == 15000
ON_VISIBLE_REFETCH_THROTTLE == 30000
configHoldOffRefreshMs == 10000

\* ------------------------------------------------------------ value spaces

None == 0
NoTime == -1
Ops == 1..MaxOps
Kinds == {"uncommitted", "commits", "conflicts"}
PageVisibility == {"focused", "visible", "hidden"}
\* The clock advances in steps of half the hold-off period.
TickMs == configHoldOffRefreshMs \div 2

\* What an operation is: its runner and whether normalizeOperationArgs accepts
\* its arguments.
OpKinds == {"git", "gitBadArgs", "codeReviewProvider", "otherRunner"}

ErrorShortMessages_NoCommitsFetched == "NoCommitsFetched"
\* How runCommand rejects: the command's own failure, or the errors it makes
\* for a killed process.
CommandFailures == {"CommandError", "Timed out", "Killed"}
\* Local branches, and the review identifiers the code review provider links
\* them to; "" is no identifier.
Branches == {"main", "feature"}
DiffIds == {"PR1", "PR2"}
\* A commit as parseCommitInfoOutput returns it: commit 1 is on main, the
\* others on feature, and no review identifier is set.
CommitInfo(h) ==
  [hash |-> h, bookmark |-> IF h = 1 THEN "main" ELSE "feature", diffId |-> ""]
\* Commit lists parseCommitInfoOutput may return (the head is first).
ParsedCommitLists == {<<>>, <<CommitInfo(1)>>, <<CommitInfo(2), CommitInfo(1)>>}
\* File lists `git status --porcelain=v1` may report: "M" a modified file, "U"
\* an unmerged one.
StatusOutputs == {<<>>, <<"M">>, <<"U">>}
ConflictIndicators == <<"MERGE_HEAD", "REBASE_HEAD", "CHERRY_PICK_HEAD">>

\* The Repository's own listener on commit changes, registered by its constructor.
OwnListener == 0
Subs == 1..MaxSubs

NoSnapshot == [type |-> "none", start |-> 0, done |-> 0, val |-> <<>>, err |-> ""]
ValueSnapshot(s, d, v) == [type |-> "value", start |-> s, done |-> d, val |-> v, err |-> ""]
ErrorSnapshot(s, d, e) == [type |-> "error", start |-> s, done |-> d, val |-> <<>>, err |-> e]

\* A subscribeToHeadCommit call that was not made or was disposed.
NoHeadSubscriber == [on |-> FALSE, known |-> FALSE, hash |-> "", delivered |-> ""]
\* A commit with its isDot field.
HeadCommitInfo(h, dot) == [hash |-> h, bookmark |-> "main", diffId |-> "", isDot |-> dot]

NoConflicts == [state |-> "none", command |-> "", files |-> <<>>, start |-> 0, done |-> 0]
LoadingConflicts == [state |-> "loading", command |-> "", files |-> <<>>, start |-> 0, done |-> 0]
LoadedConflicts(c, f, s, d) == [state |-> "loaded", command |-> c, files |-> f, start |-> s, done |-> d]

VARIABLES
  now,                       \* Date.now()
  \* OperationQueue
  runningOperation,
  runningOperationStartTime,
  queuedOperations,
  abortRequested,            \* the running operation's AbortSignal is aborted
  opState,                   \* unused, queued, running, or the result: ran, skipped
  procs,                     \* operations whose process is spawned and has not exited
  everSpawned,               \* operations for which a process was ever spawned
  polled,                    \* operations whose completion issued poll('force')
  \* WatchForChanges
  lastFetch,
  timeout,                   \* deadline of the pending poll timer
  pageState,                 \* PageFocusTracker, one page
  watchmanHealthy,
  \* Repository
  fetching,                  \* per kind, the executions of the fetch body in flight
  smartlogCommits,
  uncommittedChanges,
  mergeConflicts,
  subscribers,               \* per kind, the listeners of its change emitter
  branchToDiffId,            \* the code review provider's branch -> review id map
  publishedCommits,          \* the cached commit snapshot as listeners were given it
  repoDebounce,              \* deadline of handleRepositoryStateChange's debounce timer
  conflictDebounce,          \* deadline of handleConflictStateChange's debounce timer
  notified,                  \* dirstate notifications no callback has answered yet
  throttle,                  \* stage, count and timestamps of handleUncommittedChanges
  command,                   \* the call of runCommand and its process
  gitLog,                    \* an output of git log, the head hash, and what was parsed
  refsParse,                 \* a refs decoration, and the bookmarks parsed from it
  changedFiles,              \* a name-status listing, and the files parsed from it
  statusLines,               \* the lines git status printed for the last fetch that ended
  preview,                   \* an operation, the uncommitted changes observed, and its applier
  opArgs,                    \* an operation's arguments, and what runOperation made of them
  opProgress,                \* per operation: how its process ended, and the progress reported
  pathPrefix,                \* a list of paths, and their longest common directory prefix
  roundTrip,                 \* a log output, its parse, the parse written out again, and the parse of that
  conflictStatusLines,       \* the lines git status printed for the last conflict check that ended
  headSubscribers,           \* per subscribeToHeadCommit call: its listener, its headCommit, and the hash last given to the callback
  watcher,                   \* WatchForChanges: the poll timers pending and the one this.timeout holds; Repository.refcount, the set-ups in flight, watchmanDisposables and the file-change subscription
  \* What the last handler did, in order: polls, callbacks, fetch calls, ended
  \* commands, emitted snapshots (one event per listener called), settled
  \* fetch promises, progress reports of operations.
  events

vars == <<now, runningOperation, runningOperationStartTime, queuedOperations,
          abortRequested, opState, procs, everSpawned, polled,
          lastFetch, timeout, pageState, watchmanHealthy,
          fetching, smartlogCommits, uncommittedChanges, mergeConflicts,
          subscribers, branchToDiffId, publishedCommits,
          repoDebounce, conflictDebounce, notified, throttle, command,
          gitLog, refsParse, changedFiles, statusLines, preview, opArgs, opProgress, pathPrefix, roundTrip, conflictStatusLines, headSubscribers, watcher,
          events>>

\* The program state a handler starts from; its event log starts empty.
State ==
  [now |-> now,
   runningOperation |-> runningOperation,
   runningOperationStartTime |-> runningOperationStartTime,
   queuedOperations |-> queuedOperations,
   abortRequested |-> abortRequested,
   opState |-> opState,
   procs |-> procs,
   everSpawned |-> everSpawned,
   polled |-> polled,
   lastFetch |-> lastFetch,
   timeout |-> timeout,
   pageState |-> pageState,
   watchmanHealthy |-> watchmanHealthy,
   fetching |-> fetching,
   smartlogCommits |-> smartlogCommits,
   uncommittedChanges |-> uncommittedChanges,
   mergeConflicts |-> mergeConflicts,
   subscribers |-> subscribers,
   branchToDiffId |-> branchToDiffId,
   publishedCommits |-> publishedCommits,
   repoDebounce |-> repoDebounce,
   conflictDebounce |-> conflictDebounce,
   notified |-> notified,
   throttle |-> throttle,
   command |-> command,
   gitLog |-> gitLog,
   refsParse |-> refsParse,
   changedFiles |-> changedFiles,
   statusLines |-> statusLines,
   preview |-> preview,
   opArgs |-> opArgs,
   opProgress |-> opProgress,
   pathPrefix |-> pathPrefix,
   roundTrip |-> roundTrip,
   conflictStatusLines |-> conflictStatusLines,
   headSubscribers |-> headSubscribers,
   watcher |-> watcher,
   events |-> <<>>]

Becomes(s) ==
  /\ now' = s.now
  /\ runningOperation' = s.runningOperation
  /\ runningOperationStartTime' = s.runningOperationStartTime
  /\ queuedOperations' = s.queuedOperations
  /\ abortRequested' = s.abortRequested
  /\ opState' = s.opState
  /\ procs' = s.procs
  /\ everSpawned' = s.everSpawned
  /\ polled' = s.polled
  /\ lastFetch' = s.lastFetch
  /\ timeout' = s.timeout
  /\ pageState' = s.pageState
  /\ watchmanHealthy' = s.watchmanHealthy
  /\ fetching' = s.fetching
  /\ smartlogCommits' = s.smartlogCommits
  /\ uncommittedChanges' = s.uncommittedChanges
  /\ mergeConflicts' = s.mergeConflicts
  /\ subscribers' = s.subscribers
  /\ branchToDiffId' = s.branchToDiffId
  /\ publishedCommits' = s.publishedCommits
  /\ repoDebounce' = s.repoDebounce
  /\ conflictDebounce' = s.conflictDebounce
  /\ notified' = s.notified
  /\ throttle' = s.throttle
  /\ command' = s.command
  /\ gitLog' = s.gitLog
  /\ refsParse' = s.refsParse
  /\ changedFiles' = s.changedFiles
  /\ statusLines' = s.statusLines
  /\ preview' = s.preview
  /\ opArgs' = s.opArgs
  /\ opProgress' = s.opProgress
  /\ pathPrefix' = s.pathPrefix
  /\ roundTrip' = s.roundTrip
  /\ conflictStatusLines' = s.conflictStatusLines
  /\ headSubscribers' = s.headSubscribers
  /\ watcher' = s.watcher
  /\ events' = s.events

Is(s) ==
  /\ now = s.now
  /\ runningOperation = s.runningOperation
  /\ runningOperationStartTime = s.runningOperationStartTime
  /\ queuedOperations = s.queuedOperations
  /\ abortRequested = s.abortRequested
  /\ opState = s.opState
  /\ procs = s.procs
  /\ everSpawned = s.everSpawned
  /\ polled = s.polled
  /\ lastFetch = s.lastFetch
  /\ timeout = s.timeout
  /\ pageState = s.pageState
  /\ watchmanHealthy = s.watchmanHealthy
  /\ fetching = s.fetching
  /\ smartlogCommits = s.smartlogCommits
  /\ uncommittedChanges = s.uncommittedChanges
  /\ mergeConflicts = s.mergeConflicts
  /\ subscribers = s.subscribers
  /\ branchToDiffId = s.branchToDiffId
  /\ publishedCommits = s.publishedCommits
  /\ repoDebounce = s.repoDebounce
  /\ conflictDebounce = s.conflictDebounce
  /\ notified = s.notified
  /\ throttle = s.throttle
  /\ command = s.command
  /\ gitLog = s.gitLog
  /\ refsParse = s.refsParse
  /\ changedFiles = s.changedFiles
  /\ statusLines = s.statusLines
  /\ preview = s.preview
  /\ opArgs = s.opArgs
  /\ opProgress = s.opProgress
  /\ pathPrefix = s.pathPrefix
  /\ roundTrip = s.roundTrip
  /\ conflictStatusLines = s.conflictStatusLines
  /\ headSubscribers = s.headSubscribers
  /\ watcher = s.watcher
  /\ events = s.events

\* ---------------------------------------------------------------- event log

Event(ev, kind, to, res, snap) ==
  [ev |-> ev, kind |-> kind, to |-> to, res |-> res, snap |-> snap]

Log(s, e) == [s EXCEPT !.events = Append(@, e)]

RECURSIVE Ascending(_)
\* The members of a set of numbers in ascending order.
Ascending(S) ==
  IF S = {} THEN <<>>
  ELSE LET m == CHOOSE x \in S : \A y \in S : x <= y
       IN <<m>> \o Ascending(S \ {m})

\* commits.value?.find(commit => commit.isDot)
FindDot(snap) ==
  LET dots == IF snap.type = "value"
                THEN {i \in DOMAIN snap.val : snap.val[i].isDot}
                ELSE {}
  IN IF dots = {}
       THEN [known |-> FALSE, hash |-> ""]
       ELSE [known |-> TRUE,
             hash |-> snap.val[CHOOSE i \in dots : \A j \in dots : i <= j].hash]

getHeadCommit(s) == FindDot(s.smartlogCommits)

\* The callback of subscriber l is called with the commit of the hash.
HeadCallback(s, l, hash) ==
  Log([s EXCEPT !.headSubscribers[l].delivered = hash],
      Event("head", "commits", l, hash, NoSnapshot))

\* Variant: onData keeps the head commit it had at subscription.
OnData_KeepsFirstHead(s, l, data) ==
  LET newHead == FindDot(data)
      sub == s.headSubscribers[l]
  IN IF newHead.known /\ ~(sub.known /\ sub.hash = newHead.hash)
       THEN HeadCallback(s, l, newHead.hash)
       ELSE s

\* onData of subscribeToHeadCommit.
OnData(s, l, data) ==
  LET newHead == FindDot(data)
      sub == s.headSubscribers[l]
  IN IF newHead.known /\ ~(sub.known /\ sub.hash = newHead.hash)
       THEN [HeadCallback(s, l, newHead.hash)
               EXCEPT !.headSubscribers[l].known = TRUE,
                      !.headSubscribers[l].hash = newHead.hash]
       ELSE s

RECURSIVE HeadListeners(_, _, _)
\* The onData listeners on the commits emitter are called with the snapshot.
HeadListeners(s, to, snap) ==
  IF to = <<>> THEN s
  ELSE HeadListeners(OnData(s, Head(to), snap), Tail(to), snap)

subscribeToHeadCommit(s, l) ==
  LET headCommit == getHeadCommit(s)
      s1 == IF headCommit.known THEN HeadCallback(s, l, headCommit.hash) ELSE s
  IN [s1 EXCEPT !.headSubscribers[l].on = TRUE,
                !.headSubscribers[l].known = headCommit.known,
                !.headSubscribers[l].hash = headCommit.hash]

\* dispose of the object subscribeToHeadCommit returned.
DisposeHeadCommit(s, l) == [s EXCEPT !.headSubscribers[l] = NoHeadSubscriber]

\* TypedEventEmitter.emit('change', snap): every listener of the kind is called
\* once with the snapshot.
Emit(s, k, snap) ==
  LET to == Ascending(s.subscribers[k])
      s1 == [s EXCEPT !.events =
               @ \o [i \in 1..Len(to) |-> Event("emit", k, to[i], "", snap)]]
  IN IF k = "commits"
       THEN HeadListeners(s1, Ascending({l \in Subs : s.headSubscribers[l].on}), snap)
       ELSE s1

\* ------------------------------------------------------------- fetch calls

\* Variant: the hold-off lasts as long as the operation runs.
ShouldWait_WhileRunning(s) == s.runningOperationStartTime # NoTime

\* shouldWait of the Repository constructor: an operation is running and has
\* been for less than the hold-off period.
ShouldWait(s) ==
  IF s.runningOperationStartTime = NoTime
    THEN FALSE
    ELSE s.now - s.runningOperationStartTime < configHoldOffRefreshMs

\* One execution of a fetch body, suspended at its first await.
NewExecution(s, k) ==
  [phase |-> CASE k = "uncommitted" -> "status"
               [] k = "commits" -> "head"
               [] k = "conflicts" -> "exists",
   start |-> s.now,
   data |-> IF k = "conflicts"
              THEN <<IF s.mergeConflicts.state # "none" THEN 1 ELSE 0>>
              ELSE <<>>]

\* The wrapped async function is called: its body runs to its first await.
StartAsyncCall(s, k) ==
  IF Len(s.fetching[k]) < MaxInflight
    THEN Log([s EXCEPT !.fetching[k] = Append(@, NewExecution(s, k))],
             Event("call", k, -1, "started", NoSnapshot))
    ELSE s

\* Variant: every call starts the wrapped function.
SerializeAsyncCall_EveryCallRuns(s, k) == StartAsyncCall(s, k)

\* serializeAsyncCall: a call made while the wrapped function is in flight joins
\* the in-flight call; otherwise the function is started.
SerializeAsyncCall(s, k) ==
  IF s.fetching[k] = <<>>
    THEN StartAsyncCall(s, k)
    ELSE Log(s, Event("call", k, -1, "joined", NoSnapshot))

fetchUncommittedChanges(s) == SerializeAsyncCall(s, "uncommitted")

\* Variant: the commit fetch is not wrapped in serializeAsyncCall.
fetchSmartlogCommits_Unserialized(s) == StartAsyncCall(s, "commits")

fetchSmartlogCommits(s) == SerializeAsyncCall(s, "commits")

checkForMergeConflicts(s) == SerializeAsyncCall(s, "conflicts")

Fetch(s, kind) ==
  CASE kind = "uncommitted changes" -> fetchUncommittedChanges(s)
    [] kind = "commits" -> fetchSmartlogCommits(s)
    [] kind = "merge conflicts" -> checkForMergeConflicts(s)
    [] kind = "everything" ->
         checkForMergeConflicts(fetchSmartlogCommits(fetchUncommittedChanges(s)))

\* Variant: the callback does not consult shouldWait.
Callback_NoHoldOff(s, kind, pollKind) ==
  Fetch(Log(s, Event("callback", kind, -1, pollKind, NoSnapshot)), kind)

\* The change callback the Repository hands to WatchForChanges.
Callback(s, kind, pollKind) ==
  LET s1 == Log(s, Event("callback", kind, -1, pollKind, NoSnapshot)) IN
  IF pollKind # "force" /\ ShouldWait(s1)
    THEN s1
    ELSE Fetch(s1, kind)

\* ------------------------------------------------------------- WatchForChanges

hasPageWithFocus(s) == s.pageState = "focused"
hasVisiblePage(s) == s.pageState \in {"focused", "visible"}

DesiredNextTickTime_VisibilityOnly(s) ==
  IF hasPageWithFocus(s) THEN FOCUSED_POLL_INTERVAL
  ELSE IF hasVisiblePage(s) THEN VISIBLE_POLL_INTERVAL
  ELSE DEFAULT_POLL_INTERVAL

DesiredNextTickTime(s) ==
  IF ~s.watchmanHealthy
    THEN IF hasPageWithFocus(s) THEN FOCUSED_POLL_INTERVAL
         ELSE IF hasVisiblePage(s) THEN VISIBLE_POLL_INTERVAL
         ELSE DEFAULT_POLL_INTERVAL
    ELSE IF ~hasPageWithFocus(s) /\ ~hasVisiblePage(s) THEN HIDDEN_POLL_INTERVAL
         ELSE DEFAULT_POLL_INTERVAL

\* clearTimeout(this.timeout): a pending timer is cancelled; a timer that has
\* fired or was cleared, or no timer, is left alone.
ClearTimeout(s) ==
  IF s.watcher.handle = "pending"
    THEN [s EXCEPT !.watcher.pending = @ - 1, !.watcher.handle = "cleared"]
    ELSE s

\* this.timeout = setTimeout(this.poll, ms)
SetTimeout(s, ms) ==
  [s EXCEPT !.timeout = s.now + ms,
            !.watcher.pending = @ + 1,
            !.watcher.handle = "pending"]

\* Variant: 'force' is a poll kind like any other.
Poll_ForceWaits(s, kind) ==
  LET desiredNextTickTime == DesiredNextTickTime(s)
      elapsedTickTime == s.now - s.lastFetch
      s1 == Log(s, Event("poll", "", -1, kind, NoSnapshot))
  IN IF \/ elapsedTickTime >= desiredNextTickTime
        \/ (kind = "focused" /\ elapsedTickTime >= ON_FOCUS_REFETCH_THROTTLE)
        \/ (kind = "visible" /\ elapsedTickTime >= ON_VISIBLE_REFETCH_THROTTLE)
       THEN SetTimeout(ClearTimeout([Callback(s1, "everything", kind) EXCEPT
                                       !.lastFetch = s.now]),
                       desiredNextTickTime)
       ELSE SetTimeout(ClearTimeout(s1), desiredNextTickTime - elapsedTickTime)

\* Variant: a poll that does not refetch leaves the armed timer and arms another.
Poll_KeepsTimer(s, kind) ==
  LET desiredNextTickTime == DesiredNextTickTime(s)
      elapsedTickTime == s.now - s.lastFetch
      s1 == Log(s, Event("poll", "", -1, kind, NoSnapshot))
  IN IF \/ kind = "force"
        \/ elapsedTickTime >= desiredNextTickTime
        \/ (kind = "focused" /\ elapsedTickTime >= ON_FOCUS_REFETCH_THROTTLE)
        \/ (kind = "visible" /\ elapsedTickTime >= ON_VISIBLE_REFETCH_THROTTLE)
       THEN SetTimeout(ClearTimeout([Callback(s1, "everything", kind) EXCEPT
                                       !.lastFetch = s.now]),
                       desiredNextTickTime)
       ELSE SetTimeout(s1, desiredNextTickTime - elapsedTickTime)

\* WatchForChanges.poll(kind); "undefined" is a call without a kind.
Poll(s, kind) ==
  LET desiredNextTickTime == DesiredNextTickTime(s)
      elapsedTickTime == s.now - s.lastFetch
      s1 == Log(s, Event("poll", "", -1, kind, NoSnapshot))
  IN IF \/ kind = "force"
        \/ elapsedTickTime >= desiredNextTickTime
        \/ (kind = "focused" /\ elapsedTickTime >= ON_FOCUS_REFETCH_THROTTLE)
        \/ (kind = "visible" /\ elapsedTickTime >= ON_VISIBLE_REFETCH_THROTTLE)
       THEN SetTimeout(ClearTimeout([Callback(s1, "everything", kind) EXCEPT
                                       !.lastFetch = s.now]),
                       desiredNextTickTime)
       ELSE SetTimeout(ClearTimeout(s1), desiredNextTickTime - elapsedTickTime)

\* disposeWatchmanSubscriptions: every disposer pushed so far is called, and
\* each unwatches the file-change subscription.
disposeWatchmanSubscriptions(s) ==
  IF s.watcher.watchmanDisposables > 0
    THEN [s EXCEPT !.watcher.subscribed = FALSE]
    ELSE s

\* WatchForChanges.dispose
WatchForChangesDispose(s) ==
  LET s1 == disposeWatchmanSubscriptions(s)
      s2 == IF s1.watcher.handle # "undefined"
              THEN [ClearTimeout(s1) EXCEPT !.watcher.handle = "undefined",
                                            !.timeout = NoTime]
              ELSE s1
  IN [s2 EXCEPT !.watcher.disposed = TRUE]

\* Repository.dispose: the disposables remove the listeners of the emitters,
\* and the watcher is disposed.
RepositoryDispose(s) ==
  WatchForChangesDispose(
    [s EXCEPT !.subscribers = [k \in Kinds |-> {}],
              !.headSubscribers = [l \in Subs |-> NoHeadSubscriber]])

\* Repository.ref: the first reference starts setupSubscriptions.
RepositoryRef(s) ==
  LET s1 == [s EXCEPT !.watcher.refcount = @ + 1, !.watcher.refs = @ + 1]
  IN IF s1.watcher.refcount = 1
       THEN [s1 EXCEPT !.watcher.setups = @ + 1]
       ELSE s1

\* Repository.unref: the last reference disposes the watchman subscriptions.
RepositoryUnref(s) ==
  LET s1 == [s EXCEPT !.watcher.refcount = @ - 1]
  IN IF s1.watcher.refcount = 0
       THEN disposeWatchmanSubscriptions(s1)
       ELSE s1

\* setupWatchmanSubscriptions from the end of watchDirectoryRecursive: the
\* subscription is there and its disposer is pushed, or the failure is logged.
SetupWatchmanSubscriptionsDone(s, subscribed) ==
  LET s1 == [s EXCEPT !.watcher.setups = @ - 1]
  IN IF subscribed
       THEN [s1 EXCEPT !.watcher.subscribed = TRUE,
                       !.watcher.watchmanDisposables = @ + 1]
       ELSE [s1 EXCEPT !.watcher.failed = TRUE]

\* The wait of the two debounced dirstate handlers.
DebounceMs == 100

\* Names the dirstate subscription reports: the five it asks watchman for, and
\* a ref file.
ConflictMarkerNames == {"MERGE_HEAD", "REBASE_HEAD", "CHERRY_PICK_HEAD"}
RefNames == {"refs/heads/main"}
RepoStateNames == {"HEAD", "index"} \cup RefNames
DirstateNames == ConflictMarkerNames \cup RepoStateNames

\* debounce(f, wait): a call (re)starts the timer; f runs when it expires.
Debounce(s, deadline) == s.now + DebounceMs

\* The 'change' listener of the dirstate subscription.
OnDirstateChange(s, changes) ==
  LET hasConflictChange == \E c \in changes : c \in ConflictMarkerNames
      hasRepoChange == \E c \in changes : c = "HEAD" \/ c = "index" \/ c \in RefNames
      s1 == [s EXCEPT !.notified = Append(@, [names |-> changes, at |-> s.now])]
      s2 == IF hasConflictChange
              THEN [s1 EXCEPT !.conflictDebounce = Debounce(s1, @)]
              ELSE s1
  IN IF hasRepoChange
       THEN [s2 EXCEPT !.repoDebounce = Debounce(s2, @)]
       ELSE s2

\* The notifications left once a handler has answered the given names.
Answer(q, names) ==
  SelectSeq([i \in DOMAIN q |-> [q[i] EXCEPT !.names = @ \ names]],
            LAMBDA n : n.names # {})

\* handleRepositoryStateChange, when its timer expires.
HandleRepositoryStateChange(s) ==
  [Callback(s, "everything", "undefined") EXCEPT
     !.lastFetch = s.now,
     !.repoDebounce = NoTime,
     !.notified = Answer(@, RepoStateNames)]

\* handleConflictStateChange, when its timer expires.
HandleConflictStateChange(s) ==
  [Callback(s, "merge conflicts", "undefined") EXCEPT
     !.conflictDebounce = NoTime,
     !.notified = Answer(@, ConflictMarkerNames)]

\* The stages handleUncommittedChanges is built with.
ThrottleStages_ModerateStageUnthrottled ==
  <<[throttleMs |-> 0, numToNextStage |-> 5, resetAfterMs |-> 5000],
    [throttleMs |-> 0, numToNextStage |-> 10, resetAfterMs |-> 20000],
    [throttleMs |-> 30000, numToNextStage |-> None, resetAfterMs |-> 30000]>>

ThrottleStages ==
  <<[throttleMs |-> 0, numToNextStage |-> 5, resetAfterMs |-> 5000],
    [throttleMs |-> 5000, numToNextStage |-> 10, resetAfterMs |-> 20000],
    [throttleMs |-> 30000, numToNextStage |-> None, resetAfterMs |-> 30000]>>

\* The stage an event is handled in: the first one again when the current
\* stage's idle period has passed since the last event.
StageOfEvent(s) ==
  LET t == s.throttle IN
  IF t.lastSeen # NoTime /\ s.now - t.lastSeen >= ThrottleStages[t.stage].resetAfterMs
    THEN [t EXCEPT !.stage = 1, !.numSeen = 0]
    ELSE t

\* stagedThrottler(stages, cb), called for one working-tree event: the event
\* is passed to cb unless the stage's throttle time has not passed since the
\* last one passed on; the stage's count of events moves to the next stage.
StagedThrottler(s) ==
  LET t == StageOfEvent(s)
      stage == ThrottleStages[t.stage]
      passes == t.lastEmitted = NoTime \/ s.now - t.lastEmitted >= stage.throttleMs
      seen == [t EXCEPT !.numSeen = @ + 1, !.lastSeen = s.now,
                        !.lastEmitted = IF passes THEN s.now ELSE @]
      next == IF stage.numToNextStage # None /\ seen.numSeen >= stage.numToNextStage
                THEN [seen EXCEPT !.stage = @ + 1, !.numSeen = 0]
                ELSE seen
      s1 == [s EXCEPT !.throttle = next]
  IN IF passes
       THEN [Callback(s1, "uncommitted changes", "undefined") EXCEPT !.lastFetch = s.now]
       ELSE s1

\* ------------------------------------------------------------ commands
MAX_FETCHED_FILES_PER_COMMIT == 25

\* ------------------------------------------------------------ templates
NotParsed == [done |-> FALSE, commits |-> <<>>, errors |-> <<>>]

\* Text is a sequence of characters; each of the two marks is one character of
\* its own.
COMMIT_END_MARK == "<<COMMIT_END_MARK>>"
FIELD_SEPARATOR == "<<FIELD_SEP>>"
Whitespace == {" ", "\n"}
GIT_LOG_FIELD_NAMES == <<"hash", "title", "author", "date", "parents", "refs", "body">>

\* String.prototype.split with a one-character separator.
RECURSIVE Split(_, _)
Split(str, sep) ==
  IF \A i \in DOMAIN str : str[i] # sep
    THEN <<str>>
    ELSE LET i == CHOOSE j \in DOMAIN str :
                    str[j] = sep /\ \A k \in 1..(j - 1) : str[k] # sep
         IN <<SubSeq(str, 1, i - 1)>> \o Split(SubSeq(str, i + 1, Len(str)), sep)

\* Array.prototype.join.
RECURSIVE Join(_, _)
Join(parts, sep) ==
  IF parts = <<>> THEN <<>>
  ELSE IF Len(parts) = 1 THEN parts[1]
  ELSE parts[1] \o <<sep>> \o Join(Tail(parts), sep)

\* String.prototype.trim.
Trim(str) ==
  LET inked == {i \in DOMAIN str : str[i] \notin Whitespace} IN
  IF inked = {} THEN <<>>
  ELSE SubSeq(str, CHOOSE i \in inked : \A j \in inked : i <= j,
                   CHOOSE i \in inked : \A j \in inked : i >= j)

\* The record pushed for one chunk of the output.
\* Text of ref decorations, character by character.
StartsWith(str, prefix) ==
  Len(str) >= Len(prefix) /\ SubSeq(str, 1, Len(prefix)) = prefix
EndsWith(str, suffix) ==
  Len(str) >= Len(suffix) /\ SubSeq(str, Len(str) - Len(suffix) + 1, Len(str)) = suffix
Includes(str, ch) == \E i \in DOMAIN str : str[i] = ch

HEAD == <<"H", "E", "A", "D">>
HeadArrow == <<"H", "E", "A", "D", " ", "-", ">", " ">>

\* ref.match(/^HEAD -> (.+)$/): the group, or nothing.
MatchHeadArrow(ref) ==
  IF StartsWith(ref, HeadArrow) /\ Len(ref) > Len(HeadArrow)
    THEN <<SubSeq(ref, Len(HeadArrow) + 1, Len(ref))>>
    ELSE <<>>

\* The loop of parseRefs over the trimmed tokens; local is which list is built.
RECURSIVE ParseRefTokens(_, _, _)
ParseRefTokens(refs, local, slashHeadIsRemote) ==
  IF refs = <<>> THEN <<>>
  ELSE LET ref == Head(refs)
           rest == ParseRefTokens(Tail(refs), local, slashHeadIsRemote)
           headArrow == MatchHeadArrow(ref)
       IN IF ref = <<>> THEN rest
          ELSE IF ref = HEAD THEN rest
          ELSE IF headArrow # <<>>
            THEN IF local THEN <<headArrow[1]>> \o rest ELSE rest
          ELSE IF Includes(ref, "/")
            THEN IF EndsWith(ref, <<"/">> \o HEAD) /\ ~slashHeadIsRemote THEN rest
                 ELSE IF local THEN rest ELSE <<ref>> \o rest
          ELSE IF local THEN <<ref>> \o rest ELSE rest

parseRefs_SlashHeadIsRemote(refsStr) ==
  IF Trim(refsStr) = <<>>
    THEN [bookmarks |-> <<>>, remoteBookmarks |-> <<>>]
    ELSE LET parts == Split(refsStr, ",")
             refs == [i \in DOMAIN parts |-> Trim(parts[i])]
         IN [bookmarks |-> ParseRefTokens(refs, TRUE, TRUE),
             remoteBookmarks |-> ParseRefTokens(refs, FALSE, TRUE)]

parseRefs(refsStr) ==
  IF Trim(refsStr) = <<>>
    THEN [bookmarks |-> <<>>, remoteBookmarks |-> <<>>]
    ELSE LET parts == Split(refsStr, ",")
             refs == [i \in DOMAIN parts |-> Trim(parts[i])]
         IN [bookmarks |-> ParseRefTokens(refs, TRUE, FALSE),
             remoteBookmarks |-> ParseRefTokens(refs, FALSE, FALSE)]

\* String.prototype.substring.
Substring(str, from, to) ==
  SubSeq(str, from + 1, IF Len(str) < to THEN Len(str) ELSE to)

\* The file fetchUncommittedChanges makes of a line of git status.
ChangedFileOfStatusLine(line) ==
  LET statusCode == Trim(Substring(line, 0, 2))
      filePath == Substring(line, 3, Len(line))
      status ==
        IF statusCode = <<"?", "?">> THEN "?"
        ELSE IF statusCode \in {<<"M">>, <<"M", "M">>, <<"A", "M">>} THEN "M"
        ELSE IF statusCode = <<"A">> THEN "A"
        ELSE IF statusCode = <<"D">> THEN "R"
        ELSE IF statusCode = <<"R">> THEN "A"
        ELSE IF statusCode \in {<<"U", "U">>, <<"A", "A">>, <<"D", "D">>} THEN "U"
        ELSE IF statusCode = <<"!">> THEN "!"
        ELSE "M"
  IN [path |-> filePath, status |-> status]

\* The files of the output of git status.
ParseStatusOutput(stdout) ==
  LET lines == SelectSeq(Split(stdout, "\n"), LAMBDA line : Len(line) >= 2)
  IN [i \in DOMAIN lines |-> ChangedFileOfStatusLine(lines[i])]

\* The elements of an array.
Elements(array) == {array[i] : i \in DOMAIN array}

\* AmendOperation: the condition under which no applier is returned, and the
\* applier.
AmendOperationReturnsUndefined(op, context) ==
  LET filesToAmend == IF op.hasPaths THEN Elements(op.paths) ELSE {}
  IN \/ Len(context) = 0
     \/ /\ Cardinality(filesToAmend) > 0
        /\ \A i \in DOMAIN context : context[i].path \notin filesToAmend
AmendOperationFunc(op, context, changes) ==
  LET filesToAmend == IF op.hasPaths THEN Elements(op.paths) ELSE {}
  IN IF op.hasPaths
       THEN SelectSeq(changes, LAMBDA change : change.path \notin filesToAmend)
       ELSE <<>>

\* AddRemoveOperation.
AddRemoveOperationReturnsUndefined(op, context) ==
  LET allFiles == Len(op.paths) = 0
  IN \A i \in DOMAIN context :
       /\ allFiles \/ context[i].path \in Elements(op.paths)
       /\ context[i].status # "?"
       /\ context[i].status # "!"
AddRemoveOperationFunc(op, context, changes) ==
  LET allFiles == Len(op.paths) = 0
  IN [i \in DOMAIN changes |->
        IF allFiles \/ changes[i].path \in Elements(op.paths)
          THEN [path |-> changes[i].path,
                status |-> IF changes[i].status = "?" THEN "A"
                           ELSE IF changes[i].status = "!" THEN "R"
                           ELSE changes[i].status]
          ELSE changes[i]]

\* UnshelveOperation.
UnshelveOperationReturnsUndefined(op, context) ==
  LET preexistingChanges == {context[i].path : i \in DOMAIN context}
  IN \A i \in DOMAIN op.filesSample : op.filesSample[i].path \in preexistingChanges
UnshelveOperationFunc(op, context, changes) ==
  LET preexistingChanges == {context[i].path : i \in DOMAIN context}
      newChanges == SelectSeq(op.filesSample, LAMBDA file : file.path \notin preexistingChanges)
  IN changes \o newChanges

\* makeOptimisticUncommittedChangesApplier of the operation: "undefined", or
\* "func" for an applier.
makeOptimisticUncommittedChangesApplier(op, context) ==
  LET undefined ==
        IF op.opName = "Amend" THEN AmendOperationReturnsUndefined(op, context)
        ELSE IF op.opName = "AddRemove" THEN AddRemoveOperationReturnsUndefined(op, context)
        ELSE UnshelveOperationReturnsUndefined(op, context)
  IN IF undefined THEN "undefined" ELSE "func"

\* The applier of the operation, applied to changes.
func(op, context, changes) ==
  IF op.opName = "Amend" THEN AmendOperationFunc(op, context, changes)
  ELSE IF op.opName = "AddRemove" THEN AddRemoveOperationFunc(op, context, changes)
  ELSE UnshelveOperationFunc(op, context, changes)

Slice(arr, n) == SubSeq(arr, 1, IF Len(arr) < n THEN Len(arr) ELSE n)

\* max.reduce((acc, part) => acc + part.length + 1, 0)
RECURSIVE LengthOfParts(_)
LengthOfParts(max) ==
  IF max = <<>> THEN 0 ELSE Len(Head(max)) + 1 + LengthOfParts(Tail(max))

\* The candidate after the inner loop of findMaxCommonPathPrefix over the parts
\* of one path: cut before the first part that differs from it.
NarrowMax(max, parts) ==
  LET differs == {i \in DOMAIN parts : i > Len(max) \/ parts[i] # max[i]}
  IN IF differs = {} THEN max
     ELSE LET i == CHOOSE j \in differs : \A k \in differs : j <= k
          IN SubSeq(max, 1, IF i - 1 < Len(max) THEN i - 1 ELSE Len(max))

\* The loop of findMaxCommonPathPrefix from path i on; max is the candidate
\* after the paths before.
RECURSIVE MaxCommonParts(_, _, _)
MaxCommonParts(filePaths, i, max) ==
  IF i > Len(filePaths) THEN max
  ELSE LET parts == Split(Slice(filePaths[i], LengthOfParts(max)), "/")
           narrowed == NarrowMax(max, parts)
       IN IF narrowed = <<>> THEN <<>>
          ELSE MaxCommonParts(filePaths, i + 1, narrowed)

\* templates.findMaxCommonPathPrefix
findMaxCommonPathPrefix(filePaths) ==
  LET max == IF filePaths = <<>> THEN <<>>
             ELSE LET first == Split(filePaths[1], "/")
                  IN MaxCommonParts(filePaths, 2, SubSeq(first, 1, Len(first) - 1))
      result == Join(max, "/")
  IN IF result = <<>> THEN result ELSE result \o <<"/">>

\* The status and the copy source parseChangedFilesOutput gives a line.
ChangedFileOfLine_RenameIsModified(parts) ==
  LET statusCode == parts[1]
      filePath == parts[Len(parts)]
  IN IF statusCode = <<"M">> THEN [path |-> filePath, status |-> "M", copy |-> <<>>]
     ELSE IF statusCode = <<"A">> THEN [path |-> filePath, status |-> "A", copy |-> <<>>]
     ELSE IF statusCode = <<"D">> THEN [path |-> filePath, status |-> "R", copy |-> <<>>]
     ELSE IF StartsWith(statusCode, <<"C">>)
       THEN [path |-> filePath, status |-> "A", copy |-> parts[2]]
     ELSE IF statusCode = <<"U">> THEN [path |-> filePath, status |-> "U", copy |-> <<>>]
     ELSE [path |-> filePath, status |-> "M", copy |-> <<>>]

ChangedFileOfLine(parts) ==
  LET statusCode == parts[1]
      filePath == parts[Len(parts)]
  IN IF statusCode = <<"M">> THEN [path |-> filePath, status |-> "M", copy |-> <<>>]
     ELSE IF statusCode = <<"A">> THEN [path |-> filePath, status |-> "A", copy |-> <<>>]
     ELSE IF statusCode = <<"D">> THEN [path |-> filePath, status |-> "R", copy |-> <<>>]
     ELSE IF StartsWith(statusCode, <<"R">>)
       THEN [path |-> filePath, status |-> "A", copy |-> parts[2]]
     ELSE IF StartsWith(statusCode, <<"C">>)
       THEN [path |-> filePath, status |-> "A", copy |-> parts[2]]
     ELSE IF statusCode = <<"U">> THEN [path |-> filePath, status |-> "U", copy |-> <<>>]
     ELSE [path |-> filePath, status |-> "M", copy |-> <<>>]

\* The loop of parseChangedFilesOutput over the lines.
RECURSIVE ChangedFilesOfLines(_)
ChangedFilesOfLines(lines) ==
  IF lines = <<>> THEN <<>>
  ELSE LET parts == Split(Head(lines), "\t")
           rest == ChangedFilesOfLines(Tail(lines))
       IN IF Len(parts) < 2 THEN rest ELSE <<ChangedFileOfLine(parts)>> \o rest


parseChangedFilesOutput(output) ==
  LET lines == SelectSeq(Split(Trim(output), "\n"), LAMBDA l : Len(l) > 0)
      files == ChangedFilesOfLines(lines)
  IN [filesSample |-> Slice(files, MAX_FETCHED_FILES_PER_COMMIT),
      totalFileCount |-> Len(files)]

\* publicAncestors?.has(hash): a set that was not supplied has no member.
NoPublicAncestors == [supplied |-> FALSE, hashes |-> {}]
PublicAncestors(hashes) == [supplied |-> TRUE, hashes |-> hashes]

PhaseOf_NoSetIsPublic(hash, publicAncestors) ==
  IF ~publicAncestors.supplied \/ hash \in publicAncestors.hashes
    THEN "public" ELSE "draft"

PhaseOf(hash, publicAncestors) ==
  IF publicAncestors.supplied /\ hash \in publicAncestors.hashes
    THEN "public" ELSE "draft"

\* new Date(dateStr) of a date text: an instant in digits, alone (the UTC
\* text of the instant) or followed by an offset sign (another text of the same
\* instant); any other text gives an invalid date.
Digits == {"0", "1", "2", "3", "4", "5", "6", "7", "8", "9"}
NewDate(dateStr) ==
  IF /\ dateStr # <<>>
     /\ dateStr[1] \in Digits
     /\ \A i \in DOMAIN dateStr : dateStr[i] \in Digits \cup {"+"}
    THEN [valid |-> TRUE, time |-> SelectSeq(dateStr, LAMBDA c : c \in Digits)]
    ELSE [valid |-> FALSE, time |-> <<>>]

\* Variant: the description keeps the blanks and line ends around it.
Description_NotTrimmed(body) ==
  LET bodyLines == Split(body, "\n")
  IN IF Len(bodyLines) > 1 THEN Join(Tail(bodyLines), "\n") ELSE <<>>

\* The description of a commit: its body without its first line.
Description(body) ==
  LET bodyLines == Split(body, "\n")
  IN IF Len(bodyLines) > 1 THEN Trim(Join(Tail(bodyLines), "\n")) ELSE <<>>

ParseChunk(parts, headHash, publicAncestors, rawHashIsDot) ==
  LET hash == Trim(parts[1])
      parentsStr == Trim(parts[5])
  IN [hash |-> hash,
      title |-> parts[2],
      author |-> parts[3],
      date |-> NewDate(parts[4]),
      parents |-> IF parentsStr # <<>>
                    THEN SelectSeq(Split(parentsStr, " "), LAMBDA q : Len(q) > 0)
                    ELSE <<>>,
      bookmarks |-> parseRefs(parts[6]).bookmarks,
      remoteBookmarks |-> parseRefs(parts[6]).remoteBookmarks,
      description |-> Description(Trim(Join(SubSeq(parts, 7, Len(parts)), FIELD_SEPARATOR))),
      phase |-> PhaseOf(hash, publicAncestors),
      isDot |-> IF rawHashIsDot THEN parts[1] = headHash ELSE hash = headHash,
      diffId |-> ""]

\* Whether the processing of a chunk of seven parts or more throws: the parts
\* are strings, and no call made on them (trim, split, join, match, new Date,
\* Set.has) throws.
ChunkThrows(parts) == FALSE

\* The chunks the catch of the loop gives to logger.error.
RECURSIVE LoggedErrors(_)
LoggedErrors(revisions) ==
  IF revisions = <<>> THEN <<>>
  ELSE LET trimmed == Trim(Head(revisions))
           parts == Split(trimmed, FIELD_SEPARATOR)
           rest == LoggedErrors(Tail(revisions))
       IN IF trimmed = <<>> THEN rest
          ELSE IF Len(parts) < Len(GIT_LOG_FIELD_NAMES) THEN rest
          ELSE IF ChunkThrows(parts) THEN <<trimmed>> \o rest
          ELSE rest

RECURSIVE ParseRevisions(_, _, _, _)
ParseRevisions(revisions, headHash, publicAncestors, rawHashIsDot) ==
  IF revisions = <<>> THEN <<>>
  ELSE LET trimmed == Trim(Head(revisions))
           parts == Split(trimmed, FIELD_SEPARATOR)
           rest == ParseRevisions(Tail(revisions), headHash, publicAncestors, rawHashIsDot)
       IN IF trimmed = <<>> THEN rest
          ELSE IF Len(parts) < Len(GIT_LOG_FIELD_NAMES) THEN rest
          ELSE IF ChunkThrows(parts) THEN rest
          ELSE <<ParseChunk(parts, headHash, publicAncestors, rawHashIsDot)>> \o rest

parseCommitInfoOutput_RawHashIsDot(output, headHash, publicAncestors) ==
  ParseRevisions(Split(output, COMMIT_END_MARK), headHash, publicAncestors, TRUE)

parseCommitInfoOutput_SevenPartsOnly(output, headHash, publicAncestors) ==
  ParseRevisions(SelectSeq(Split(output, COMMIT_END_MARK),
                           LAMBDA chunk : Len(Split(Trim(chunk), FIELD_SEPARATOR)) = 7),
                 headHash, publicAncestors, FALSE)

parseCommitInfoOutput(output, headHash, publicAncestors) ==
  ParseRevisions(Split(output, COMMIT_END_MARK), headHash, publicAncestors, FALSE)

\* What git log prints for a commit under getMainFetchFormat: the fields with
\* the separator between them, the end mark, and a line end.
GitLogFormat(record) ==
  Join([i \in 1..Len(GIT_LOG_FIELD_NAMES) |-> record[GIT_LOG_FIELD_NAMES[i]]],
       FIELD_SEPARATOR) \o <<COMMIT_END_MARK, "\n">>

RECURSIVE GitLogOutput(_)
GitLogOutput(records) ==
  IF records = <<>> THEN <<>>
  ELSE GitLogFormat(Head(records)) \o GitLogOutput(Tail(records))

\* A parsed commit in the format of getMainFetchFormat: the hash, the title,
\* the author, the date in its UTC text, the parents with blanks between them,
\* the local and then the remote bookmarks with a comma and a blank between
\* them, and as the message the title, an empty line and the description.
RECURSIVE JoinTexts(_, _)
JoinTexts(parts, sep) ==
  IF parts = <<>> THEN <<>>
  ELSE IF Len(parts) = 1 THEN parts[1]
  ELSE parts[1] \o sep \o JoinTexts(Tail(parts), sep)

SerializeRefs(commit) == JoinTexts(commit.bookmarks \o commit.remoteBookmarks, <<",", " ">>)

SerializeCommit(commit) ==
  GitLogFormat([hash |-> commit.hash,
                title |-> commit.title,
                author |-> commit.author,
                date |-> IF commit.date.valid THEN commit.date.time
                         ELSE <<"I", "n", "v", "a", "l", "i", "d">>,
                parents |-> Join(commit.parents, " "),
                refs |-> SerializeRefs(commit),
                body |-> IF commit.description = <<>> THEN commit.title
                         ELSE commit.title \o <<"\n", "\n">> \o commit.description])

RECURSIVE SerializeCommits(_)
SerializeCommits(commits) ==
  IF commits = <<>> THEN <<>>
  ELSE SerializeCommit(Head(commits)) \o SerializeCommits(Tail(commits))

\* ------------------------------------------------------------ runCommand
READ_COMMAND_TIMEOUT_MS == 60000
forceKillAfterTimeout == 5000

\* A call of runCommand: the process (running; signalled, once kill was called
\* on it; ended), the timer, the flag the timer sets, and what the caller gets.
NoCommand ==
  [process |-> "none", timeout |-> 0, started |-> NoTime, timeoutId |-> NoTime,
   timedOut |-> FALSE, killed |-> FALSE, signals |-> <<>>, forceKillAt |-> NoTime,
   ended |-> NoTime, exit |-> "", result |-> ""]

\* runCommand up to its await: the process is spawned and the timer set.
RunCommandStart(s, timeoutMs) ==
  [s EXCEPT !.command =
     [NoCommand EXCEPT !.process = "running", !.timeout = timeoutMs, !.started = s.now,
                       !.timeoutId = IF timeoutMs > 0 THEN s.now + timeoutMs ELSE NoTime]]

\* result.kill(signal, {forceKillAfterTimeout}): the signal is sent, and
\* SIGKILL after the grace time, if the process has not ended by then.
Kill(c, at, signal, grace) ==
  [c EXCEPT !.process = "signalled", !.killed = TRUE,
            !.signals = Append(@, [signal |-> signal, at |-> at]),
            !.forceKillAt = IF grace = NoTime THEN @ ELSE at + grace]

\* The callback of the timer.
RunCommandTimer_NoFlag(s) ==
  [s EXCEPT !.command =
     [Kill(@, s.now, "SIGTERM", forceKillAfterTimeout) EXCEPT !.timeoutId = NoTime]]

RunCommandTimer(s) ==
  [s EXCEPT !.command =
     [Kill(@, s.now, "SIGTERM", forceKillAfterTimeout) EXCEPT
        !.timeoutId = NoTime, !.timedOut = TRUE]]

\* The process ends: the 'exit' listener clears the timer, and the promise of
\* the process settles; runCommand returns its value or throws from its catch.
RunCommandSettle(s, exit) ==
  LET c == s.command
      result == IF exit = "exit0" THEN "value"
                ELSE IF c.killed
                  THEN IF c.timedOut THEN "Timed out" ELSE "Killed"
                  ELSE "CommandError"
  IN [s EXCEPT !.command =
        [c EXCEPT !.process = "ended", !.timeoutId = NoTime, !.forceKillAt = NoTime,
                  !.ended = s.now, !.exit = exit, !.result = result]]

\* ------------------------------------------------------------ operations

\* Paths are texts with "/" between their segments. The repository root, as
\* the segments of its absolute path.
repoRoot == <<<<"r">>>>
NoStdin == [set |-> FALSE, text |-> <<>>]
Stdin(text) == [set |-> TRUE, text |-> text]
PathspecFromFile == <<"--pathspec-from-file=-">>

\* path.join(repoRoot, p), as segments.
PathJoin(root, p) == root \o SelectSeq(Split(p, "/"), LAMBDA seg : seg # <<>>)

\* The number of leading segments two paths share.
RECURSIVE CommonSegments(_, _)
CommonSegments(from, to) ==
  IF from # <<>> /\ to # <<>> /\ Head(from) = Head(to)
    THEN 1 + CommonSegments(Tail(from), Tail(to))
    ELSE 0

\* path.relative(from, to), both as segments of absolute paths; the result is
\* a text.
PathRelative(from, to) ==
  LET k == CommonSegments(from, to)
  IN Join([i \in 1..(Len(from) - k) |-> <<".", ".">>] \o SubSeq(to, k + 1, Len(to)), "/")

\* path.normalize of a relative path without "." or inner ".." segments.
PathNormalize(p) == IF p = <<>> THEN <<".">> ELSE p

\* The argument a repo-relative path becomes.
CwdRelative(cwd, p) == PathNormalize(PathRelative(cwd, PathJoin(repoRoot, p)))

\* normalizeOperationArgs from argument i on. Placeholders of type config are
\* not among the arguments considered.
RECURSIVE NormalizeArgs(_, _, _, _, _)
NormalizeArgs(cwd, opargs, i, acc, overwritesStdin) ==
  IF i > Len(opargs) \/ acc.threw THEN acc
  ELSE
    LET arg == opargs[i]
        next ==
          CASE arg.type = "repo-relative-file" ->
                 [acc EXCEPT !.args = Append(@, CwdRelative(cwd, arg.path))]
            [] arg.type = "repo-relative-file-list" ->
                 IF acc.stdin.set /\ ~overwritesStdin
                   THEN [acc EXCEPT !.args = Append(@, PathspecFromFile), !.threw = TRUE]
                   ELSE [acc EXCEPT
                           !.args = Append(@, PathspecFromFile),
                           !.stdin = Stdin(Join([j \in DOMAIN arg.paths |->
                                                   CwdRelative(cwd, arg.paths[j])], "\n"))]
            [] arg.type = "exact-revset" ->
                 IF StartsWith(arg.revset, <<"-">>)
                   THEN [acc EXCEPT !.threw = TRUE]
                   ELSE [acc EXCEPT !.args = Append(@, arg.revset)]
            [] arg.type \in {"succeedable-revset", "optimistic-revset"} ->
                 [acc EXCEPT !.args = Append(@, arg.revset)]
            [] OTHER -> [acc EXCEPT !.args = Append(@, arg.value)]
    IN NormalizeArgs(cwd, opargs, i + 1, next, overwritesStdin)

\* Variant: a file list replaces the standard input the operation has.
normalizeOperationArgs_OverwritesStdin(cwd, operation) ==
  NormalizeArgs(cwd, operation.args, 1,
                [threw |-> FALSE, args |-> <<>>, stdin |-> operation.stdin], TRUE)

\* Repository.normalizeOperationArgs
normalizeOperationArgs(cwd, operation) ==
  NormalizeArgs(cwd, operation.args, 1,
                [threw |-> FALSE, args |-> <<>>, stdin |-> operation.stdin], FALSE)

\* Repository.runOperation up to the spawn of the process: the arguments are
\* normalized, which may throw; the process is given the standard input if it
\* is a non-empty text.
RunOperationSpawn(cwd, operation) ==
  LET n == normalizeOperationArgs(cwd, operation)
  IN [threw |-> n.threw,
      args |-> IF n.threw THEN <<>> ELSE n.args,
      stdin |-> IF n.threw THEN NoStdin ELSE n.stdin,
      spawned |-> ~n.threw,
      input |-> IF ~n.threw /\ n.stdin.set /\ n.stdin.text # <<>> THEN n.stdin ELSE NoStdin]

Operation(o, kind) == [id |-> o, kind |-> kind]

\* onProgress of an operation: the progress is reported.
OnProgress(s, o, what, res) ==
  Log([s EXCEPT !.opProgress[o].reported = Append(@, [what |-> what, res |-> res])],
      Event("progress", what, o, res, NoSnapshot))

\* Repository.runOperation up to its await of the process: normalizeOperationArgs
\* throws on arguments it rejects; otherwise the process is spawned and 'spawn'
\* is reported.
RunOperation(s, op) ==
  IF op.kind = "gitBadArgs"
    THEN [state |-> s, outcome |-> "reject"]
    ELSE [state |-> OnProgress([s EXCEPT !.procs = @ \cup {op.id},
                                         !.everSpawned = @ \cup {op.id}],
                               op.id, "spawn", ""),
          outcome |-> "pending"]

\* The listeners runOperation puts on the output of the process.
RunOperationData(s, o, stream) == OnProgress(s, o, stream, "")

\* Repository.runOperation from the process's exit: 'exit' is reported with the
\* exit code, and the promise resolves (exit 0) or rejects.
ProcessEnded(s, o, outcome) ==
  [s EXCEPT !.procs = @ \ {o}, !.opProgress[o].exited = outcome]

\* Variant: 'exit' is reported when the process succeeds only.
RunOperationExit_SilentOnFailure(s, o, outcome) ==
  IF outcome = "exit0"
    THEN OnProgress(ProcessEnded(s, o, outcome), o, "exit", outcome)
    ELSE ProcessEnded(s, o, outcome)

\* Variant: 'exit' is reported with the code of a success.
RunOperationExit_ReportsZero(s, o, outcome) ==
  OnProgress(ProcessEnded(s, o, outcome), o, "exit", "exit0")

RunOperationExit(s, o, outcome) ==
  OnProgress(ProcessEnded(s, o, outcome), o, "exit", outcome)

\* The callback the Repository gives its OperationQueue. The code review
\* provider here has no runExternalCommand.
OperationQueueCallback(s, op) ==
  CASE op.kind \in {"git", "gitBadArgs"} -> RunOperation(s, op)
    [] op.kind = "codeReviewProvider" -> [state |-> s, outcome |-> "reject"]
    [] OTHER -> [state |-> s, outcome |-> "resolve"]

\* Variant: the force poll after an operation is left out.
RunOrQueueOperationDone_NoPoll(s, o, result) == s

\* Repository.runOrQueueOperation after the queue's promise settles.
RunOrQueueOperationDone(s, o, result) ==
  IF result # "skipped"
    THEN [Poll(s, "force") EXCEPT !.polled = @ \cup {o}]
    ELSE s

RECURSIVE StartOperation(_, _)
RECURSIVE FinishOperation(_, _, _)

\* OperationQueue: the operation becomes the running one and the callback runs.
StartOperation(s, op) ==
  LET o == op.id
      r == OperationQueueCallback(
             [s EXCEPT !.runningOperation = o,
                       !.runningOperationStartTime = s.now,
                       !.abortRequested = FALSE,
                       !.opState[o] = "running"], op)
  IN IF r.outcome = "pending"
       THEN r.state
       ELSE FinishOperation(r.state, o, "ran")

\* Variant: the queue goes idle without starting the next queued operation.
FinishOperation_LeavesQueue(s, o, result) ==
  RunOrQueueOperationDone([s EXCEPT !.runningOperation = None,
                                    !.runningOperationStartTime = NoTime,
                                    !.abortRequested = FALSE,
                                    !.opState[o] = result],
                          o, result)

\* OperationQueue: the running operation's promise settled, either way. The
\* queue goes idle, starts the next queued operation if there is one, and
\* resolves the caller's promise.
FinishOperation(s, o, result) ==
  LET s1 == [s EXCEPT !.runningOperation = None,
                      !.runningOperationStartTime = NoTime,
                      !.abortRequested = FALSE,
                      !.opState[o] = result]
      s2 == IF s1.queuedOperations # <<>>
              THEN StartOperation([s1 EXCEPT !.queuedOperations = Tail(@)],
                                  Head(s1.queuedOperations))
              ELSE s1
  IN RunOrQueueOperationDone(s2, o, result)

\* OperationQueue.runOrQueueOperation
EnqueueOrRun(s, op) ==
  IF s.runningOperation # None
    THEN [s EXCEPT !.queuedOperations = Append(@, op), !.opState[op.id] = "queued"]
    ELSE StartOperation(s, op)

\* Variant: the operation is run at once, without asking the queue.
RepositoryRunOrQueueOperation_Unqueued(s, op) == StartOperation(s, op)

\* Repository.runOrQueueOperation up to its await.
RepositoryRunOrQueueOperation(s, op) == EnqueueOrRun(s, op)

RemoveFromQueue(q, id) == SelectSeq(q, LAMBDA x : x.id # id)

\* OperationQueue.abortRunningOperation: the running operation's process is
\* signalled; a queued operation is dropped and its caller gets 'skipped'.
AbortOperation(s, id) ==
  IF s.runningOperation = id
    THEN [s EXCEPT !.abortRequested = TRUE]
    ELSE IF \E i \in 1..Len(s.queuedOperations) : s.queuedOperations[i].id = id
      THEN RunOrQueueOperationDone(
             [s EXCEPT !.queuedOperations = RemoveFromQueue(@, id),
                       !.opState[id] = "skipped"],
             id, "skipped")
      ELSE s

\* Variant: whatever is running is aborted, whichever id was asked for.
RepositoryAbortRunningOperation_AnyId(s, id) == AbortOperation(s, s.runningOperation)

\* Repository.abortRunningOperation
RepositoryAbortRunningOperation(s, id) == AbortOperation(s, id)

\* ------------------------------------------------------------ fetch bodies

RemoveAt(q, i) == [j \in 1..(Len(q) - 1) |-> IF j < i THEN q[j] ELSE q[j + 1]]

\* The execution's promise settles and the execution is over.
Settled(s, k, i, how) ==
  Log([s EXCEPT !.fetching[k] = RemoveAt(@, i)], Event("settle", k, -1, how, NoSnapshot))

\* A command of a fetch body ended: failure is "" when runCommand resolved.
CommandEnded(s, k, failure) == Log(s, Event("command", k, -1, failure, NoSnapshot))

\* fetchUncommittedChanges from the end of `git status`: a value snapshot is
\* cached and emitted, an error snapshot is emitted only.
UncommittedBody(s, i, failure, files) ==
  LET e == s.fetching["uncommitted"][i]
      s1 == CommandEnded(s, "uncommitted", failure)
  IN IF failure = ""
       THEN LET snapshot == ValueSnapshot(e.start, s.now, files)
            IN Settled(Emit([s1 EXCEPT !.uncommittedChanges = snapshot],
                            "uncommitted", snapshot),
                       "uncommitted", i, "resolved")
       ELSE Settled(Emit(s1, "uncommitted", ErrorSnapshot(e.start, s.now, failure)),
                    "uncommitted", i, "resolved")

\* Variant: the catch block rethrows instead of publishing the error.
CommitsCatch_Rethrows(s, i, error) == Settled(s, "commits", i, "rejected")

\* The catch block of fetchSmartlogCommits.
CommitsCatch(s, i, error) ==
  LET e == s.fetching["commits"][i] IN
  Settled(Emit(s, "commits", ErrorSnapshot(e.start, s.now, error)), "commits", i, "resolved")

\* fetchSmartlogCommits from the end of `git rev-parse HEAD`.
CommitsAfterHead(s, i, failure) ==
  LET s1 == CommandEnded(s, "commits", failure)
  IN IF failure = ""
       THEN [s1 EXCEPT !.fetching["commits"][i].phase = "public"]
       ELSE CommitsCatch(s1, i, failure)

\* ... from the end of the public-ancestors log, whose failure is swallowed.
CommitsAfterPublic(s, i) ==
  [s EXCEPT !.fetching["commits"][i].phase = "log"]

\* Variant: an empty parse result is a result like any other.
CommitsAfterLog_EmptyIsValue(s, i, failure, commits) ==
  LET s1 == CommandEnded(s, "commits", failure)
      s2 == Log(s1, Event("parsed", "commits", Len(commits), "", NoSnapshot))
  IN IF failure # ""
       THEN CommitsCatch(s1, i, failure)
       ELSE [s2 EXCEPT !.fetching["commits"][i].phase = "gt",
                       !.fetching["commits"][i].data = commits]

\* ... from the end of the main log command: the output is parsed, and an empty
\* result is thrown as NoCommitsFetched.
CommitsAfterLog(s, i, failure, commits) ==
  LET s1 == CommandEnded(s, "commits", failure)
      s2 == Log(s1, Event("parsed", "commits", Len(commits), "", NoSnapshot))
  IN IF failure # ""
       THEN CommitsCatch(s1, i, failure)
       ELSE IF Len(commits) = 0
         THEN CommitsCatch(s2, i, ErrorShortMessages_NoCommitsFetched)
         ELSE [s2 EXCEPT !.fetching["commits"][i].phase = "gt",
                         !.fetching["commits"][i].data = commits]

\* applyDiffIds: a commit whose branch the map links to a review identifier
\* gets that identifier.
applyDiffIds(commits, map) ==
  [i \in DOMAIN commits |->
     IF map[commits[i].bookmark] # ""
       THEN [commits[i] EXCEPT !.diffId = map[commits[i].bookmark]]
       ELSE commits[i]]

\* Map.size > 0
NonEmptyMap(map) == \E b \in DOMAIN map : map[b] # ""

\* ... from the end of `gt state`, whose failure is swallowed: review
\* identifiers are applied, and the snapshot is cached and emitted.
CommitsAfterGt(s, i) ==
  LET e == s.fetching["commits"][i]
      commits == IF NonEmptyMap(s.branchToDiffId)
                   THEN applyDiffIds(e.data, s.branchToDiffId)
                   ELSE e.data
      snapshot == ValueSnapshot(e.start, s.now, commits)
  IN Settled(Emit([s EXCEPT !.smartlogCommits = snapshot,
                            !.publishedCommits = snapshot],
                  "commits", snapshot),
             "commits", i, "resolved")

\* Variant: the cached snapshot is published again whether or not anything
\* changed.
OnChangeDiffSummaries_AlwaysPublishes(s, result) ==
  LET s1 == Log(s, Event("diffSummaries", "", -1, result, NoSnapshot))
  IN Emit(s1, "commits", s1.smartlogCommits)

\* The constructor's listener on the provider's diff summaries: review
\* identifiers are applied to the commits of the cached snapshot, in place,
\* and the snapshot is emitted again when one of them changed.
OnChangeDiffSummaries(s, result) ==
  LET s1 == Log(s, Event("diffSummaries", "", -1, result, NoSnapshot))
  IN IF result = "value" /\ s.smartlogCommits.type = "value"
          /\ NonEmptyMap(s.branchToDiffId)
       THEN LET commits == s.smartlogCommits.val
                applied == applyDiffIds(commits, s.branchToDiffId)
                changed == \E j \in DOMAIN commits : applied[j].diffId # commits[j].diffId
                s2 == [s1 EXCEPT !.smartlogCommits.val = applied]
            IN IF changed THEN Emit(s2, "commits", s2.smartlogCommits) ELSE s2
       ELSE s1

\* checkForMergeConflicts from the end of the marker-file checks; marker is the
\* index of the first indicator that exists, 0 when none does.
ConflictsAfterExists(s, i, marker) ==
  LET e == s.fetching["conflicts"][i]
      wasAlreadyInConflicts == e.data[1] = 1
  IN IF marker = 0
       THEN IF wasAlreadyInConflicts
              THEN Settled(Emit([s EXCEPT !.mergeConflicts = NoConflicts],
                                "conflicts", NoConflicts),
                           "conflicts", i, "resolved")
              ELSE Settled(s, "conflicts", i, "resolved")
       ELSE LET s1 == IF s.mergeConflicts.state = "none"
                        THEN Emit([s EXCEPT !.mergeConflicts = LoadingConflicts],
                                  "conflicts", LoadingConflicts)
                        ELSE s
            IN [s1 EXCEPT !.fetching["conflicts"][i].phase = "status",
                          !.fetching["conflicts"][i].start = s.now,
                          !.fetching["conflicts"][i].data = <<e.data[1], marker>>]

ConflictCommand(marker) ==
  CASE marker = 1 -> "merge" [] marker = 2 -> "rebase" [] OTHER -> "cherry_pick"

\* The conflicted files checkForMergeConflicts makes of the output of git status.
UnmergedPrefixes ==
  {<<"U", "U">>, <<"A", "A">>, <<"D", "D">>, <<"A", "U">>, <<"U", "A">>,
   <<"D", "U">>, <<"U", "D">>}
ConflictFilesOfStatus(stdout) ==
  LET lines == SelectSeq(Split(stdout, "\n"),
                         LAMBDA line : Len(line) >= 2
                                       /\ \E p \in UnmergedPrefixes : StartsWith(line, p))
  IN [i \in DOMAIN lines |->
        [path |-> Trim(Substring(lines[i], 3, Len(lines[i]))),
         status |-> "U",
         conflictType |-> "both_changed"]]

\* ... from the end of `git status` that printed stdout.
ConflictsAfterStatusOutput(s, i, stdout) ==
  LET e == s.fetching["conflicts"][i]
      s1 == CommandEnded(s, "conflicts", "")
      conflictFiles == ConflictFilesOfStatus(stdout)
      conflicts == IF conflictFiles = <<>>
                     THEN NoConflicts
                     ELSE LoadedConflicts(ConflictCommand(e.data[2]), conflictFiles,
                                          e.start, s.now)
  IN Settled(Emit([s1 EXCEPT !.mergeConflicts = conflicts], "conflicts", conflicts),
             "conflicts", i, "resolved")

\* Variant: the catch block leaves the conflict state as it is.
ConflictsAfterStatus_CatchKeepsState(s, i, failure, files) ==
  LET e == s.fetching["conflicts"][i]
      s1 == CommandEnded(s, "conflicts", failure)
      conflictFiles == SelectSeq(files, LAMBDA f : f = "U")
      conflicts == IF failure # "" THEN s.mergeConflicts
                   ELSE IF conflictFiles = <<>>
                     THEN NoConflicts
                     ELSE LoadedConflicts(ConflictCommand(e.data[2]), conflictFiles,
                                          e.start, s.now)
  IN Settled(Emit([s1 EXCEPT !.mergeConflicts = conflicts], "conflicts", conflicts),
             "conflicts", i, "resolved")

\* ... from the end of `git status`.
ConflictsAfterStatus(s, i, failure, files) ==
  LET e == s.fetching["conflicts"][i]
      s1 == CommandEnded(s, "conflicts", failure)
      conflictFiles == SelectSeq(files, LAMBDA f : f = "U")
      conflicts == IF failure # "" \/ conflictFiles = <<>>
                     THEN NoConflicts
                     ELSE LoadedConflicts(ConflictCommand(e.data[2]), conflictFiles,
                                          e.start, s.now)
  IN Settled(Emit([s1 EXCEPT !.mergeConflicts = conflicts], "conflicts", conflicts),
             "conflicts", i, "resolved")

\* -------------------------------------------------------------------- actions

\* Operation ids are fresh; the model hands them out in order.
NextUnused == CHOOSE o \in Ops : opState[o] = "unused" /\ \A p \in Ops : p < o => opState[p] # "unused"

RunOrQueueOperation(kind, limit) ==
  /\ \E o \in 1..limit : opState[o] = "unused"
  /\ Becomes(RepositoryRunOrQueueOperation(State, Operation(NextUnused, kind)))

AbortRunningOperation(id) ==
  /\ opState[id] # "unused"
  /\ Becomes(RepositoryAbortRunningOperation(
               Log(State, Event("abort", "", id, "", NoSnapshot)), id))

\* The process of a running operation exits (by itself, or killed after an
\* abort): runOperation reports 'exit' and settles, and the queue and
\* Repository.runOrQueueOperation continue.
OperationExit(o, outcome) ==
  /\ o \in procs
  /\ outcome = "killed" => (abortRequested /\ runningOperation = o)
  /\ Becomes(FinishOperation(RunOperationExit(State, o, outcome), o, "ran"))

\* The process of a running operation writes a chunk of output. The promise
\* of the process settles once its output has ended, so chunks come while the
\* process is there.
OperationOutput(o, stream) ==
  /\ o \in procs
  /\ Len(opProgress[o].reported) <= MaxChunks
  /\ Becomes(RunOperationData(State, o, stream))

\* Repository.setPageFocus: PageFocusTracker.setState calls its onChange
\* handlers, here poll.
SetPageFocus(v) ==
  /\ v # pageState
  /\ Becomes(Poll([State EXCEPT !.pageState = v], v))

\* handleRepositoryStateChange, after its debounce.
RepositoryStateChange ==
  Becomes(HandleRepositoryStateChange(State))

\* handleConflictStateChange, after its debounce.
ConflictStateChange ==
  Becomes(HandleConflictStateChange(State))

\* Watchman reports changed names of the git directory.
DirstateChange(changes) ==
  /\ Len(notified) < MaxNotified
  /\ Becomes(OnDirstateChange(State, changes))

\* Watchman reports changed files of the working tree.
WorkingTreeChange ==
  /\ throttle.numSeen < MaxSeen
  /\ Becomes(StagedThrottler(State))

\* The poll timer expires.
PollTimerExpires ==
  /\ watcher.handle = "pending"
  /\ now >= timeout
  /\ Becomes(Poll([State EXCEPT !.watcher.pending = @ - 1,
                                !.watcher.handle = "fired"],
                  "undefined"))

\* Repository.dispose is called.
Dispose ==
  /\ ~watcher.disposed
  /\ Becomes(RepositoryDispose(State))

Ref ==
  /\ watcher.refs < MaxRefCalls
  /\ Becomes(RepositoryRef(State))

Unref ==
  /\ watcher.refcount > 0
  /\ Becomes(RepositoryUnref(State))

\* watchDirectoryRecursive of a set-up in flight resolves or rejects.
SetupSubscriptionsDone(subscribed) ==
  /\ watcher.setups > 0
  /\ Becomes(SetupWatchmanSubscriptionsDone(State, subscribed))

\* The status of the watchman connection changes.
WatchmanStatusChange(healthy) ==
  /\ healthy # watchmanHealthy
  /\ Becomes([State EXCEPT !.watchmanHealthy = healthy])

\* The output of git log is parsed.
ParseCommitInfoOutput ==
  /\ ~gitLog.parsed.done
  /\ Becomes([State EXCEPT
       !.gitLog.parsed = [done |-> TRUE,
                         errors |-> LoggedErrors(Split(gitLog.output, COMMIT_END_MARK)),
                         commits |-> parseCommitInfoOutput(gitLog.output, gitLog.headHash,
                                                          gitLog.publicAncestors)]])

\* The parsed commits are dropped.
DropParsed ==
  /\ gitLog.parsed.done
  /\ Becomes([State EXCEPT !.gitLog.parsed = NotParsed])

\* A refs decoration is parsed.
ParseRefs ==
  /\ ~refsParse.done
  /\ Becomes([State EXCEPT
       !.refsParse = [@ EXCEPT !.done = TRUE,
                               !.bookmarks = parseRefs(refsParse.refsStr).bookmarks,
                               !.remoteBookmarks = parseRefs(refsParse.refsStr).remoteBookmarks]])

\* The parsed bookmarks are dropped.
DropRefs ==
  /\ refsParse.done
  /\ Becomes([State EXCEPT !.refsParse = [@ EXCEPT !.done = FALSE, !.bookmarks = <<>>,
                                                    !.remoteBookmarks = <<>>]])

\* A name-status listing is parsed.
ParseChangedFilesOutput ==
  /\ ~changedFiles.done
  /\ Becomes([State EXCEPT
       !.changedFiles = [@ EXCEPT
          !.done = TRUE,
          !.filesSample = parseChangedFilesOutput(changedFiles.output).filesSample,
          !.totalFileCount = parseChangedFilesOutput(changedFiles.output).totalFileCount]])

\* The parsed files are dropped.
DropChangedFiles ==
  /\ changedFiles.done
  /\ Becomes([State EXCEPT !.changedFiles = [@ EXCEPT !.done = FALSE, !.filesSample = <<>>,
                                                       !.totalFileCount = 0]])

\* The operation is asked for its applier against the observed changes; an
\* applier it returns is applied to them.
MakeOptimisticUncommittedChangesApplier ==
  /\ ~preview.done
  /\ LET returned == makeOptimisticUncommittedChangesApplier(preview.operation,
                                                             preview.uncommittedChanges)
     IN Becomes([State EXCEPT
          !.preview = [@ EXCEPT !.done = TRUE, !.returned = returned,
                                !.applied = IF returned = "func"
                                              THEN func(preview.operation,
                                                        preview.uncommittedChanges,
                                                        preview.uncommittedChanges)
                                              ELSE preview.uncommittedChanges]])

\* The preview is discarded.
DropPreview ==
  /\ preview.done
  /\ Becomes([State EXCEPT !.preview = [@ EXCEPT !.done = FALSE, !.returned = "none",
                                                 !.applied = <<>>]])

\* runOperation resolves the arguments of the operation and spawns its process.
RunOperationWithArgs ==
  /\ ~opArgs.done
  /\ LET r == RunOperationSpawn(opArgs.cwd, opArgs.operation)
     IN Becomes([State EXCEPT
          !.opArgs = [@ EXCEPT !.done = TRUE, !.threw = r.threw, !.args = r.args,
                               !.stdin = r.stdin, !.spawned = r.spawned,
                               !.input = r.input]])

\* The operation is over.
DropOperationArgs ==
  /\ opArgs.done
  /\ Becomes([State EXCEPT
       !.opArgs = [@ EXCEPT !.done = FALSE, !.threw = FALSE, !.args = <<>>,
                            !.stdin = NoStdin, !.spawned = FALSE, !.input = NoStdin]])

\* The longest common directory prefix of the paths is computed.
FindMaxCommonPathPrefix ==
  /\ ~pathPrefix.done
  /\ Becomes([State EXCEPT
       !.pathPrefix = [@ EXCEPT !.done = TRUE,
                                !.result = findMaxCommonPathPrefix(pathPrefix.filePaths)]])

\* The result is discarded.
DropPathPrefix ==
  /\ pathPrefix.done
  /\ Becomes([State EXCEPT !.pathPrefix = [@ EXCEPT !.done = FALSE, !.result = <<>>]])

\* The output is parsed, the commits are written out in the format of the log,
\* and that text is parsed.
ParseSerializeParse ==
  /\ ~roundTrip.done
  /\ LET first == parseCommitInfoOutput(roundTrip.output, roundTrip.headHash,
                                        roundTrip.publicAncestors)
         text == SerializeCommits(first)
     IN Becomes([State EXCEPT
          !.roundTrip = [@ EXCEPT !.done = TRUE, !.first = first, !.text = text,
                                  !.second = parseCommitInfoOutput(text, roundTrip.headHash,
                                                                   roundTrip.publicAncestors)]])

\* The results are dropped.
DropRoundTrip ==
  /\ roundTrip.done
  /\ Becomes([State EXCEPT !.roundTrip = [@ EXCEPT !.done = FALSE, !.first = <<>>,
                                                   !.text = <<>>, !.second = <<>>]])

\* A read command is run.
RunCommand(timeoutMs) ==
  /\ command.process \in {"none", "ended"}
  /\ Becomes(RunCommandStart(State, timeoutMs))

\* The timer of runCommand expires.
RunCommandTimerExpires ==
  /\ command.process \in {"running", "signalled"}
  /\ command.timeoutId # NoTime
  /\ now >= command.timeoutId
  /\ Becomes(RunCommandTimer(State))

\* The process exits by itself, with code 0 or, also once signalled, with
\* another one.
ProcessExits(exit) ==
  /\ \/ command.process = "running"
     \/ command.process = "signalled" /\ exit # "exit0"
  /\ Becomes(RunCommandSettle(State, exit))

\* The process ends by a signal sent to it.
ProcessDiesOfSignal ==
  /\ command.process = "signalled"
  /\ Becomes(RunCommandSettle(State, command.signals[Len(command.signals)].signal))

\* The grace time of kill ends: SIGKILL is sent, which ends the process.
ForceKill ==
  /\ command.process = "signalled"
  /\ command.forceKillAt # NoTime
  /\ now >= command.forceKillAt
  /\ Becomes(RunCommandSettle(
       [State EXCEPT !.command.signals = Append(@, [signal |-> "SIGKILL", at |-> now])],
       "SIGKILL"))

\* The process is killed through its handle by someone else than the timer.
KilledByOther ==
  /\ command.process = "running"
  /\ Becomes([State EXCEPT !.command = Kill(@, now, "SIGTERM", NoTime)])

\* A debounce timer expires.
RepositoryStateDebounceExpires ==
  /\ repoDebounce # NoTime
  /\ now >= repoDebounce
  /\ Becomes(HandleRepositoryStateChange(State))

ConflictStateDebounceExpires ==
  /\ conflictDebounce # NoTime
  /\ now >= conflictDebounce
  /\ Becomes(HandleConflictStateChange(State))

\* Time passes, up to the next timer's deadline.
Elapse(ms, horizon) ==
  /\ now + ms <= horizon
  /\ \A d \in {repoDebounce, conflictDebounce, timeout, command.timeoutId,
                command.forceKillAt} : d # NoTime => now + ms <= d
  /\ Becomes([State EXCEPT !.now = @ + ms])

\* handleUncommittedChanges, when its throttle lets it through.
UncommittedFileChange ==
  Becomes([Callback(State, "uncommitted changes", "undefined") EXCEPT !.lastFetch = now])

\* A caller outside the watcher calls a refetch method directly.
DirectRefetch(k) ==
  Becomes(CASE k = "uncommitted" -> fetchUncommittedChanges(State)
            [] k = "commits" -> fetchSmartlogCommits(State)
            [] k = "conflicts" -> checkForMergeConflicts(State))

Tick(horizon) ==
  /\ now + TickMs <= horizon
  /\ Becomes([State EXCEPT !.now = @ + TickMs])

\* subscribeToUncommittedChanges, subscribeToSmartlogCommitsChanges and
\* onChangeConflictState: the callback is registered; onChangeConflictState
\* also calls it at once when the repository is in merge conflicts.
SubscribeTo(s, k, l) ==
  LET s1 == [s EXCEPT !.subscribers[k] = @ \cup {l}]
  IN IF k = "conflicts" /\ s.mergeConflicts.state # "none"
       THEN Log(s1, Event("emit", k, l, "", s.mergeConflicts))
       ELSE s1

Subscribe(k, l) ==
  /\ l \notin subscribers[k]
  /\ Becomes(SubscribeTo(State, k, l))

Unsubscribe(k, l) ==
  /\ l \in subscribers[k]
  /\ Becomes([State EXCEPT !.subscribers[k] = @ \ {l}])

\* The code review provider has new diff summaries (or failed to fetch them):
\* its branch map is now `map`, and it calls its onChangeDiffSummaries
\* listeners with the result.
DiffSummariesChange(result, map) ==
  Becomes(OnChangeDiffSummaries([State EXCEPT !.branchToDiffId = map], result))

InFlight(k, phase) == {i \in 1..Len(fetching[k]) : fetching[k][i].phase = phase}

UncommittedStatusDone(outputs, failures) ==
  \E i \in InFlight("uncommitted", "status") :
    \/ \E files \in outputs : Becomes(UncommittedBody(State, i, "", files))
    \/ \E f \in failures : Becomes(UncommittedBody(State, i, f, <<>>))

\* What git status --porcelain=v1 prints: per line the code, a blank and the path.
RECURSIVE StatusStdout(_)
StatusStdout(lines) ==
  IF lines = <<>> THEN <<>>
  ELSE Head(lines).code \o <<" ">> \o Head(lines).path \o <<"\n">>
         \o StatusStdout(Tail(lines))

\* The status command of a fetch of uncommitted changes ends with the lines.
UncommittedStatusPrinted(lines) ==
  \E i \in InFlight("uncommitted", "status") :
    Becomes([UncommittedBody(State, i, "", ParseStatusOutput(StatusStdout(lines)))
               EXCEPT !.statusLines = lines])

\* The status command of a conflict check ends with the lines.
ConflictsStatusPrinted(lines) ==
  \E i \in InFlight("conflicts", "status") :
    Becomes([ConflictsAfterStatusOutput(State, i, StatusStdout(lines))
               EXCEPT !.conflictStatusLines = lines])

SubscribeToHeadCommit(l) ==
  /\ ~headSubscribers[l].on
  /\ Becomes(subscribeToHeadCommit(State, l))

UnsubscribeFromHeadCommit(l) ==
  /\ headSubscribers[l].on
  /\ Becomes(DisposeHeadCommit(State, l))

\* outcomes: "" for success, or a failure.
CommitsHeadDone(outcomes) ==
  \E i \in InFlight("commits", "head") :
    \E f \in outcomes : Becomes(CommitsAfterHead(State, i, f))

CommitsPublicDone ==
  \E i \in InFlight("commits", "public") : Becomes(CommitsAfterPublic(State, i))

CommitsLogDone(outputs, failures) ==
  \E i \in InFlight("commits", "log") :
    \/ \E commits \in outputs : Becomes(CommitsAfterLog(State, i, "", commits))
    \/ \E f \in failures : Becomes(CommitsAfterLog(State, i, f, <<>>))

CommitsGtDone ==
  \E i \in InFlight("commits", "gt") : Becomes(CommitsAfterGt(State, i))

ConflictsExistsDone(markers) ==
  \E i \in InFlight("conflicts", "exists") :
    \E marker \in markers : Becomes(ConflictsAfterExists(State, i, marker))

ConflictsStatusDone(outputs, failures) ==
  \E i \in InFlight("conflicts", "status") :
    \/ \E files \in outputs : Becomes(ConflictsAfterStatus(State, i, "", files))
    \/ \E f \in failures : Becomes(ConflictsAfterStatus(State, i, f, <<>>))

\* ------------------------------------------------------------ specifications

\* The fields before the constructor body runs.
Fresh ==
  [now |-> 0,
   runningOperation |-> None,
   runningOperationStartTime |-> NoTime,
   queuedOperations |-> <<>>,
   abortRequested |-> FALSE,
   opState |-> [o \in Ops |-> "unused"],
   procs |-> {},
   everSpawned |-> {},
   polled |-> {},
   lastFetch |-> 0,
   timeout |-> DEFAULT_POLL_INTERVAL,
   pageState |-> "hidden",
   watchmanHealthy |-> FALSE,
   fetching |-> [k \in Kinds |-> <<>>],
   smartlogCommits |-> NoSnapshot,
   uncommittedChanges |-> NoSnapshot,
   mergeConflicts |-> NoConflicts,
   subscribers |-> [k \in Kinds |-> IF k = "commits" THEN {OwnListener} ELSE {}],
   branchToDiffId |-> [b \in Branches |-> ""],
   publishedCommits |-> NoSnapshot,
   repoDebounce |-> NoTime,
   conflictDebounce |-> NoTime,
   notified |-> <<>>,
   throttle |-> [stage |-> 1, numSeen |-> 0, lastEmitted |-> NoTime, lastSeen |-> NoTime],
   command |-> NoCommand,
   gitLog |-> [records |-> <<>>, output |-> <<>>, headHash |-> <<>>,
               publicAncestors |-> NoPublicAncestors, parsed |-> NotParsed],
   refsParse |-> [tokens |-> <<>>, refsStr |-> <<>>, done |-> FALSE,
                  bookmarks |-> <<>>, remoteBookmarks |-> <<>>],
   changedFiles |-> [lines |-> <<>>, output |-> <<>>, done |-> FALSE,
                     filesSample |-> <<>>, totalFileCount |-> 0],
   statusLines |-> <<>>,
   preview |-> [operation |-> [opName |-> "none"], uncommittedChanges |-> <<>>, done |-> FALSE,
               returned |-> "none", applied |-> <<>>],
   opArgs |-> [operation |-> [args |-> <<>>, stdin |-> [set |-> FALSE, text |-> <<>>]], cwd |-> <<>>,
              done |-> FALSE, threw |-> FALSE, args |-> <<>>,
              stdin |-> [set |-> FALSE, text |-> <<>>], spawned |-> FALSE,
              input |-> [set |-> FALSE, text |-> <<>>]],
   opProgress |-> [o \in Ops |-> [exited |-> "", reported |-> <<>>]],
   pathPrefix |-> [filePaths |-> <<>>, done |-> FALSE, result |-> <<>>],
   roundTrip |-> [output |-> <<>>, headHash |-> <<>>, publicAncestors |-> [supplied |-> FALSE, hashes |-> {}],
                 done |-> FALSE, first |-> <<>>, text |-> <<>>, second |-> <<>>],
   conflictStatusLines |-> <<>>,
   headSubscribers |-> [l \in Subs |-> NoHeadSubscriber],
   watcher |-> [pending |-> 1, handle |-> "pending", disposed |-> FALSE,
               refcount |-> 0, refs |-> 0, setups |-> 0, watchmanDisposables |-> 0,
               subscribed |-> FALSE, failed |-> FALSE],
   events |-> <<>>]

\* The constructors: WatchForChanges polls with 'force', then the Repository
\* checks for merge conflicts.
Constructed == checkForMergeConflicts(Poll(Fresh, "force"))

Init == Is(Constructed)

\* The operation queue: operations are submitted, aborted and exit.
Next ==
  \/ \E kind \in OpKinds : RunOrQueueOperation(kind, MaxOps)
  \/ \E id \in Ops : AbortRunningOperation(id)
  \/ \E o \in Ops, outcome \in {"exit0", "exitNonZero", "killed"} : OperationExit(o, outcome)

Spec == Init /\ [][Next]_vars

\* Operations against change notifications as time passes. What the read
\* commands return plays no part here: each fetch ends at its first command.
NextHoldOff ==
  \/ RunOrQueueOperation("git", MaxOpsHoldOff)
  \/ \E o \in Ops : OperationExit(o, "exit0")
  \/ \E v \in {"focused", "hidden"} : SetPageFocus(v)
  \/ RepositoryStateChange
  \/ ConflictStateChange
  \/ UncommittedFileChange
  \/ UncommittedStatusDone({}, {"CommandError"})
  \/ CommitsHeadDone({"CommandError"})
  \/ ConflictsExistsDone({0})
  \/ Tick(MaxTimeHoldOff)

SpecHoldOff == Init /\ [][NextHoldOff]_vars

\* Every caller of the three fetches, and every outcome of their commands.
NextFetch ==
  \/ \E k \in Kinds : DirectRefetch(k)
  \/ RepositoryStateChange
  \/ ConflictStateChange
  \/ UncommittedFileChange
  \/ UncommittedStatusDone(StatusOutputs, CommandFailures)
  \/ CommitsHeadDone(CommandFailures \cup {""})
  \/ CommitsPublicDone
  \/ CommitsLogDone(ParsedCommitLists, CommandFailures)
  \/ CommitsGtDone
  \/ ConflictsExistsDone(0..Len(ConflictIndicators))
  \/ ConflictsStatusDone(StatusOutputs, CommandFailures)

SpecFetch == Init /\ [][NextFetch]_vars

\* Subscribers of the commit and uncommitted-changes snapshots come and go
\* while those are fetched and time passes. Which files `git status`
\* lists plays no part here.
SnapshotKinds == {"commits", "uncommitted"}

NextSnapshots ==
  \/ \E k \in SnapshotKinds : DirectRefetch(k)
  \/ \E k \in SnapshotKinds, l \in Subs : Subscribe(k, l)
  \/ \E k \in SnapshotKinds, l \in Subs : Unsubscribe(k, l)
  \/ UncommittedStatusDone({<<"M">>}, CommandFailures)
  \/ CommitsHeadDone(CommandFailures \cup {""})
  \/ CommitsPublicDone
  \/ CommitsLogDone(ParsedCommitLists, CommandFailures)
  \/ CommitsGtDone
  \/ Tick(MaxTimeFetch)

SpecSnapshots == Init /\ [][NextSnapshots]_vars

\* Subscribers of all three kinds come and go while values are fetched.
NextSubscribe ==
  \/ \E k \in Kinds : DirectRefetch(k)
  \/ \E k \in Kinds, l \in Subs : Subscribe(k, l)
  \/ \E k \in Kinds, l \in Subs : Unsubscribe(k, l)
  \/ UncommittedStatusDone({<<"M">>}, {"CommandError"})
  \/ CommitsHeadDone({""})
  \/ CommitsPublicDone
  \/ CommitsLogDone({<<1>>}, {"CommandError"})
  \/ CommitsGtDone
  \/ ConflictsExistsDone({0, 1})
  \/ ConflictsStatusDone({<<"U">>}, {})

SpecSubscribe == Init /\ [][NextSubscribe]_vars

\* Review metadata arrives while commits are fetched and subscribed to.
BranchMaps == [Branches -> DiffIds \cup {""}]

NextOverlay ==
  \/ DirectRefetch("commits")
  \/ \E l \in Subs : Subscribe("commits", l)
  \/ \E l \in Subs : Unsubscribe("commits", l)
  \/ CommitsHeadDone({""})
  \/ CommitsPublicDone
  \/ CommitsLogDone(ParsedCommitLists, {"CommandError"})
  \/ CommitsGtDone
  \/ \E result \in {"value", "error"}, map \in BranchMaps : DiffSummariesChange(result, map)

SpecOverlay == Init /\ [][NextOverlay]_vars

\* Dirstate notifications and their debounce timers, in steps of 25 ms.
DebounceStepMs == 25
NotifiedNames == {{"HEAD"}, {"index"}, {"refs/heads/main"}, {"MERGE_HEAD"},
                  {"HEAD", "REBASE_HEAD"}}

NextDirstate ==
  \/ \E changes \in NotifiedNames : DirstateChange(changes)
  \/ RepositoryStateDebounceExpires
  \/ ConflictStateDebounceExpires
  \/ UncommittedFileChange
  \/ Elapse(DebounceStepMs, MaxTimeDebounce)

SpecDirstate == Init /\ [][NextDirstate]_vars

\* Polls of the timer and of visibility changes, in steps of 15 s.
PollStepMs == 15000

NextPoll ==
  \/ \E v \in PageVisibility : SetPageFocus(v)
  \/ \E healthy \in BOOLEAN : WatchmanStatusChange(healthy)
  \/ PollTimerExpires
  \/ Elapse(PollStepMs, MaxTimePoll)

SpecPoll == Init /\ [][NextPoll]_vars

\* Outputs of git log: records whose hash, title and body vary, and a head hash.
LogHashes == {<<"a">>, <<"b">>, <<"a", " ">>, <<>>}
LogTitles == {<<"t">>, <<"t", COMMIT_END_MARK, "t">>}
LogBodies == {<<>>, <<"t", "\n", "d", "\n">>, <<"t", FIELD_SEPARATOR, "d">>}
LogRecords ==
  {[hash |-> h, title |-> ti, author |-> <<"u">>, date |-> <<"1">>,
    parents |-> <<"b", " ", "c">>, refs |-> <<>>, body |-> bo] :
     h \in LogHashes, ti \in LogTitles, bo \in LogBodies}
LogRecordLists == UNION {[1..n -> LogRecords] : n \in 0..MaxRecords}
HeadHashes == {<<"a">>, <<"b">>, <<"c">>}

PublicAncestorSets == {NoPublicAncestors, PublicAncestors({}), PublicAncestors({<<"a">>})}

InitParse ==
  \E records \in LogRecordLists, headHash \in HeadHashes,
     publicAncestors \in PublicAncestorSets :
    Is([Constructed EXCEPT
          !.gitLog = [records |-> records, output |-> GitLogOutput(records),
                      headHash |-> headHash, publicAncestors |-> publicAncestors,
                      parsed |-> NotParsed]])

NextParse ==
  \/ ParseCommitInfoOutput
  \/ DropParsed

SpecParse == InitParse /\ [][NextParse]_vars

\* Refs decorations as git log %D prints them: tokens joined by a comma and a
\* blank. Each token is given with the list and the name the rules of ref
\* decorations assign it.
RefTokens ==
  {[text |-> <<"H", "E", "A", "D">>, list |-> "dropped", name |-> <<>>],
   [text |-> <<"H", "E", "A", "D", " ", "-", ">", " ", "m">>, list |-> "local", name |-> <<"m">>],
   [text |-> <<"H", "E", "A", "D", " ", "-", ">", " ", "o", "/", "m">>, list |-> "local", name |-> <<"o", "/", "m">>],
   [text |-> <<"o", "/", "m">>, list |-> "remote", name |-> <<"o", "/", "m">>],
   [text |-> <<"o", "/", "H", "E", "A", "D">>, list |-> "dropped", name |-> <<>>],
   [text |-> <<"m">>, list |-> "local", name |-> <<"m">>],
   [text |-> <<>>, list |-> "dropped", name |-> <<>>],
   [text |-> <<"H", "E", "A", "D", "m">>, list |-> "local", name |-> <<"H", "E", "A", "D", "m">>]}
RefTokenLists == UNION {[1..n -> RefTokens] : n \in 0..MaxRefs}

RECURSIVE RefsDecoration(_)
RefsDecoration(tokens) ==
  IF tokens = <<>> THEN <<>>
  ELSE IF Len(tokens) = 1 THEN tokens[1].text
  ELSE tokens[1].text \o <<",", " ">> \o RefsDecoration(Tail(tokens))

InitRefs ==
  \E tokens \in RefTokenLists :
    Is([Constructed EXCEPT
          !.refsParse = [tokens |-> tokens, refsStr |-> RefsDecoration(tokens),
                         done |-> FALSE, bookmarks |-> <<>>, remoteBookmarks |-> <<>>]])

NextRefs ==
  \/ ParseRefs
  \/ DropRefs

SpecRefs == InitRefs /\ [][NextRefs]_vars

\* Name-status listings as git diff-tree prints them: a code and one or two
\* paths per line, with tabs between them. The lines that vary come after
\* none, 24 or 25 lines of modified files.
ChangedLines ==
  {[code |-> <<"M">>, paths |-> <<<<"f">>>>],
   [code |-> <<"A">>, paths |-> <<<<"f">>>>],
   [code |-> <<"D">>, paths |-> <<<<"f">>>>],
   [code |-> <<"U">>, paths |-> <<<<"f">>>>],
   [code |-> <<"T">>, paths |-> <<<<"f">>>>],
   [code |-> <<"R", "1", "0", "0">>, paths |-> <<<<"o">>, <<"n">>>>],
   [code |-> <<"C", "7", "5">>, paths |-> <<<<"o">>, <<"n">>>>],
   [code |-> <<"M">>, paths |-> <<>>]}
ChangedLineLists == UNION {[1..n -> ChangedLines] : n \in 0..MaxChangedLines}
ModifiedLine(i) == [code |-> <<"M">>, paths |-> <<<<"g">>>>]
LeadingLines == {[i \in 1..n |-> ModifiedLine(i)] :
                   n \in {0, MAX_FETCHED_FILES_PER_COMMIT - 1, MAX_FETCHED_FILES_PER_COMMIT}}

RECURSIVE NameStatus(_)
NameStatus(lines) ==
  IF lines = <<>> THEN <<>>
  ELSE Join(<<Head(lines).code>> \o Head(lines).paths, "\t") \o <<"\n">>
         \o NameStatus(Tail(lines))

InitChangedFiles ==
  \E leading \in LeadingLines, lines \in ChangedLineLists :
    Is([Constructed EXCEPT
          !.changedFiles = [lines |-> leading \o lines, output |-> NameStatus(leading \o lines),
                            done |-> FALSE, filesSample |-> <<>>, totalFileCount |-> 0]])

NextChangedFiles ==
  \/ ParseChangedFilesOutput
  \/ DropChangedFiles

SpecChangedFiles == InitChangedFiles /\ [][NextChangedFiles]_vars

\* Fetches of uncommitted changes whose status command prints lines of these
\* codes.
StatusCodes ==
  {<<"?", "?">>,
   <<"!", "!">>,
   <<" ", "M">>,
   <<"M", " ">>,
   <<"M", "M">>,
   <<"A", "M">>,
   <<"A", " ">>,
   <<"D", " ">>,
   <<" ", "D">>,
   <<"R", " ">>,
   <<"U", "U">>,
   <<"A", "A">>,
   <<"D", "D">>,
   <<"A", "U">>,
   <<"U", "A">>,
   <<"D", "U">>,
   <<"U", "D">>}
StatusLines == {[code |-> c, path |-> p] : c \in StatusCodes, p \in {<<"f">>}}
StatusLineLists == UNION {[1..n -> StatusLines] : n \in 0..MaxStatusLines}

NextStatus ==
  \/ DirectRefetch("uncommitted")
  \/ \E lines \in StatusLineLists : UncommittedStatusPrinted(lines)

SpecStatus == Init /\ [][NextStatus]_vars

\* Conflict checks and fetches of uncommitted changes whose status commands
\* print lines of these codes.
ConflictStatusCodes == UnmergedPrefixes \cup {<<" ", "M">>, <<"?", "?">>}
ConflictStatusLines == {[code |-> c, path |-> <<"f">>] : c \in ConflictStatusCodes}
ConflictStatusLineLists == UNION {[1..n -> ConflictStatusLines] : n \in 0..MaxConflictLines}

NextConflictStatus ==
  \/ DirectRefetch("uncommitted")
  \/ DirectRefetch("conflicts")
  \/ ConflictsExistsDone(0..Len(ConflictIndicators))
  \/ \E lines \in ConflictStatusLineLists : ConflictsStatusPrinted(lines)
  \/ \E lines \in ConflictStatusLineLists : UncommittedStatusPrinted(lines)

SpecConflictStatus == Init /\ [][NextConflictStatus]_vars

\* Head subscribers come and go while commits are fetched: the lists have the
\* head "a", the head "b", or no head.
HeadCommitLists ==
  {<<HeadCommitInfo("a", TRUE)>>,
   <<HeadCommitInfo("b", FALSE), HeadCommitInfo("a", TRUE)>>,
   <<HeadCommitInfo("b", TRUE), HeadCommitInfo("a", FALSE)>>,
   <<HeadCommitInfo("a", FALSE)>>}

NextHead ==
  \/ DirectRefetch("commits")
  \/ \E l \in Subs : SubscribeToHeadCommit(l)
  \/ \E l \in Subs : UnsubscribeFromHeadCommit(l)
  \/ CommitsHeadDone({"", "CommandError"})
  \/ CommitsPublicDone
  \/ CommitsLogDone(HeadCommitLists, {})
  \/ CommitsGtDone

SpecHead == Init /\ [][NextHead]_vars

\* The Repository is referenced and released while set-ups of the file-change
\* subscription are in flight.
NextRef ==
  \/ Ref
  \/ Unref
  \/ \E subscribed \in BOOLEAN : SetupSubscriptionsDone(subscribed)
  \/ \E v \in PageVisibility : SetPageFocus(v)

SpecRef == Init /\ [][NextRef]_vars

\* The Repository is disposed while an operation runs, the page changes
\* visibility, the poll timer runs and a dirstate notification (one, on a step
\* of the clock) waits for its debounce; the dirstate subscription reports nothing once it is unwatched.
NextDispose ==
  \/ Dispose
  \/ RunOrQueueOperation("git", MaxOpsDispose)
  \/ \E o \in Ops : OperationExit(o, "exit0")
  \/ \E v \in PageVisibility : SetPageFocus(v)
  \/ ~watcher.disposed /\ now % PollStepMs = 0 /\ notified = <<>> /\ DirstateChange({"HEAD"})
  \/ RepositoryStateDebounceExpires
  \/ PollTimerExpires
  \/ repoDebounce # NoTime /\ Elapse(DebounceMs, MaxTimeDispose)
  \/ Elapse(PollStepMs, MaxTimeDispose)

SpecDispose == Init /\ [][NextDispose]_vars

\* Operations that predict uncommitted changes, and lists of observed changes
\* of distinct paths.
PreviewPaths == {"a", "b"}
PreviewPathLists == {<<>>, <<"a">>, <<"b">>, <<"a", "b">>}
ShelvedFiles == {<<>>, <<[path |-> "a", status |-> "M"]>>, <<[path |-> "b", status |-> "A"]>>,
                 <<[path |-> "a", status |-> "M"], [path |-> "b", status |-> "A"]>>}
PreviewOperations ==
  {[opName |-> "Amend", hasPaths |-> FALSE, paths |-> <<>>, filesSample |-> <<>>]}
  \cup {[opName |-> "Amend", hasPaths |-> TRUE, paths |-> p, filesSample |-> <<>>] :
          p \in PreviewPathLists}
  \cup {[opName |-> "AddRemove", hasPaths |-> TRUE, paths |-> p, filesSample |-> <<>>] :
          p \in PreviewPathLists}
  \cup {[opName |-> "Unshelve", hasPaths |-> FALSE, paths |-> <<>>, filesSample |-> f] :
          f \in ShelvedFiles}
ObservedChange == [path : PreviewPaths, status : {"M", "A", "?", "!"}]
ObservedChanges ==
  {c \in UNION {[1..n -> ObservedChange] : n \in 0..MaxObserved} :
     \A i, j \in DOMAIN c : c[i].path = c[j].path => i = j}

InitPreview ==
  \E op \in PreviewOperations, observed \in ObservedChanges :
    Is([Constructed EXCEPT
          !.preview = [operation |-> op, uncommittedChanges |-> observed, done |-> FALSE,
                       returned |-> "none", applied |-> <<>>]])

NextPreview ==
  \/ MakeOptimisticUncommittedChangesApplier
  \/ DropPreview

SpecPreview == InitPreview /\ [][NextPreview]_vars

\* Operations by their arguments, run from the repository root or from its
\* directory s.
OperationArgs ==
  {[type |-> "string", value |-> <<"add">>],
   [type |-> "repo-relative-file", path |-> <<"s", "/", "a">>],
   [type |-> "repo-relative-file-list", paths |-> <<<<"s", "/", "a">>, <<"b">>>>],
   [type |-> "repo-relative-file-list", paths |-> <<>>],
   [type |-> "exact-revset", revset |-> <<"h">>],
   [type |-> "exact-revset", revset |-> <<"-", "h">>],
   [type |-> "succeedable-revset", revset |-> <<"h">>],
   [type |-> "succeedable-revset", revset |-> <<"-", "h">>],
   [type |-> "optimistic-revset", revset |-> <<"h">>],
   [type |-> "optimistic-revset", revset |-> <<"-", "h">>]}
OperationArgLists == UNION {[1..n -> OperationArgs] : n \in 0..MaxArgs}
OperationStdins == {NoStdin, Stdin(<<>>), Stdin(<<"x">>)}
Cwds == {repoRoot, repoRoot \o <<<<"s">>>>}

InitArgs ==
  \E a \in OperationArgLists, stdin \in OperationStdins, cwd \in Cwds :
    Is([Constructed EXCEPT
          !.opArgs = [operation |-> [args |-> a, stdin |-> stdin], cwd |-> cwd,
                      done |-> FALSE, threw |-> FALSE, args |-> <<>>, stdin |-> NoStdin,
                      spawned |-> FALSE, input |-> NoStdin]])

NextArgs ==
  \/ RunOperationWithArgs
  \/ DropOperationArgs

SpecArgs == InitArgs /\ [][NextArgs]_vars

\* Operations whose processes write output.
NextProgress ==
  \/ \E kind \in OpKinds : RunOrQueueOperation(kind, MaxOpsProgress)
  \/ \E id \in Ops : AbortRunningOperation(id)
  \/ \E o \in Ops, stream \in {"stdout", "stderr"} : OperationOutput(o, stream)
  \/ \E o \in Ops, outcome \in {"exit0", "exitNonZero", "killed"} : OperationExit(o, outcome)

SpecProgress == Init /\ [][NextProgress]_vars

\* Lists of repository-relative file paths.
FilePaths ==
  {<<"f">>,
   <<"a">>,
   <<"a", "/", "f">>,
   <<"a", "/", "g">>,
   <<"a", "/", "b">>,
   <<"a", "/", "b", "/", "f">>,
   <<"a", "b", "/", "f">>,
   <<"b", "/", "f">>}
FilePathLists == UNION {[1..n -> FilePaths] : n \in 0..MaxPaths}

InitPrefix ==
  \E filePaths \in FilePathLists :
    Is([Constructed EXCEPT
          !.pathPrefix = [filePaths |-> filePaths, done |-> FALSE, result |-> <<>>]])

NextPrefix ==
  \/ FindMaxCommonPathPrefix
  \/ DropPathPrefix

SpecPrefix == InitPrefix /\ [][NextPrefix]_vars

\* Log outputs whose records vary in the blanks around the hash, the text of
\* the date, the ref decorations and the message.
RoundTripRefs ==
  {<<>>,
   <<"H", "E", "A", "D", " ", "-", ">", " ", "m", ",", " ", "o", "/", "m", ",", " ", "n">>,
   <<"H", "E", "A", "D", " ", "-", ">", " ", "f", "/", "x">>}
RoundTripBodies ==
  {<<"t", "\n">>,
   <<"t", "\n", "\n", "d", FIELD_SEPARATOR, "e", "\n", "f", "\n">>}
RoundTripRecords ==
  {[hash |-> h, title |-> <<"t">>, author |-> <<"u">>, date |-> d,
    parents |-> <<"b", " ", "c">>, refs |-> r, body |-> bo] :
     h \in {<<"a">>, <<"b", " ">>}, d \in {<<"1">>, <<"1", "+", "2">>},
     r \in RoundTripRefs, bo \in RoundTripBodies}
RoundTripRecordLists == UNION {[1..n -> RoundTripRecords] : n \in 0..MaxRoundTrip}

InitRoundTrip ==
  \E records \in RoundTripRecordLists,
     publicAncestors \in {NoPublicAncestors, PublicAncestors({<<"a">>})} :
    Is([Constructed EXCEPT
          !.roundTrip = [output |-> GitLogOutput(records), headHash |-> <<"a">>,
                         publicAncestors |-> publicAncestors, done |-> FALSE,
                         first |-> <<>>, text |-> <<>>, second |-> <<>>]])

NextRoundTrip ==
  \/ ParseSerializeParse
  \/ DropRoundTrip

SpecRoundTrip == InitRoundTrip /\ [][NextRoundTrip]_vars

\* Read commands against their timeout, in steps of 5 s.
CommandStepMs == 5000
CommandTimeouts == {0, 10000, READ_COMMAND_TIMEOUT_MS}

NextCommand ==
  \/ \E timeoutMs \in CommandTimeouts : RunCommand(timeoutMs)
  \/ RunCommandTimerExpires
  \/ \E exit \in {"exit0", "exitNonZero"} : ProcessExits(exit)
  \/ ProcessDiesOfSignal
  \/ ForceKill
  \/ KilledByOther
  \/ Elapse(CommandStepMs, MaxTimeCommand)

SpecCommand == Init /\ [][NextCommand]_vars

\* Working-tree events and their throttle, in steps of 2.5 s.
ThrottleStepMs == 2500

NextThrottle ==
  \/ WorkingTreeChange
  \/ Elapse(ThrottleStepMs, MaxTimeThrottle)

SpecThrottle == Init /\ [][NextThrottle]_vars

\* -------------------------------------------------------------------- claims

EventIn(log, e) == \E i \in DOMAIN log : log[i] = e

Progress(what, o, res) == Event("progress", what, o, res, NoSnapshot)
Call(k, res) == Event("call", k, -1, res, NoSnapshot)

\* C1: at most one mutating operation's process exists at any time, and it is
\* the process of the operation the queue holds as running.
C1_OneOperationProcess ==
  /\ Cardinality(procs) <= 1
  /\ procs \subseteq {runningOperation}

\* An operation's process is alive, another operation waits in the queue, and
\* an earlier operation's process has come and gone.
C1_Witness ==
  \E o \in Ops :
    /\ procs = {o}
    /\ queuedOperations # <<>>
    /\ \E p \in Ops \ {o} : opState[p] = "ran" /\ p \in everSpawned

\* The process of the running operation a exits after a's abort was requested.
AbortCompletes(a) ==
  /\ runningOperation = a
  /\ abortRequested
  /\ a \in procs
  /\ a \notin procs'

\* C2: when the running operation's abort completes while another operation
\* is queued, the head of the queue is started in that same step, with no new
\* submission: it has left the queue, and when it is a git operation its
\* process is spawned and it is the running operation.
C2_QueuedRunsAfterAbort ==
  [][\A a \in Ops :
       (AbortCompletes(a) /\ queuedOperations # <<>>) =>
         LET b == Head(queuedOperations) IN
           /\ opState'[a] = "ran"
           /\ opState'[b.id] \in {"running", "ran"}
           /\ \A i \in DOMAIN queuedOperations' : queuedOperations'[i].id # b.id
           /\ b.kind = "git" =>
                /\ runningOperation' = b.id
                /\ procs' = {b.id}
                /\ queuedOperations' = Tail(queuedOperations)
                /\ EventIn(events', Progress("spawn", b.id, ""))]_vars

\* The aborted operation's process was killed and, in the same step, the
\* queued operation was spawned and is running.
C2_Witness ==
  \E a, b \in Ops :
    /\ a # b
    /\ EventIn(events, Progress("exit", a, "killed"))
    /\ EventIn(events, Progress("spawn", b, ""))
    /\ runningOperation = b
    /\ procs = {b}

\* C3 as stated: every operation in a terminal state, including one removed
\* from the queue without running, was followed by a force poll.
C3_ForcePollAfterEveryTerminalState ==
  \A o \in Ops : opState[o] \in {"ran", "skipped"} => o \in polled

\* C3, amended: every operation that was started and reached a terminal state
\* (exit 0, non-zero exit, aborted, failed before its process was spawned) was
\* followed by a force poll; an operation removed from the queue without
\* running was not.
C3_ForcePollAfterRanOnly ==
  \A o \in Ops :
    /\ opState[o] = "ran" => o \in polled
    /\ opState[o] = "skipped" => o \notin polled

\* One operation ran with a process, one failed before spawning, and one was
\* removed from the queue.
C3_Witness ==
  \E a, b, c \in Ops :
    /\ opState[a] = "ran" /\ a \in everSpawned /\ a \in polled
    /\ opState[b] = "ran" /\ b \notin everSpawned /\ b \in polled
    /\ opState[c] = "skipped"

C5_FetchBodiesNeverOverlap ==
  \A k \in Kinds : Len(fetching[k]) <= 1

\* A notification called all three fetches while each was in flight.
C5_Witness ==
  \A k \in Kinds : Len(fetching[k]) = 1 /\ EventIn(events, Call(k, "joined"))

\* C6: while a commit fetch is in flight, a further call of the commit refetch
\* starts no execution, and when the execution in flight ends none is left or
\* started.
C6_ConcurrentCommitCallsShareOneExecution ==
  [][fetching["commits"] # <<>> =>
       /\ ~EventIn(events', Call("commits", "started"))
       /\ Len(fetching'["commits"]) <= 1
       /\ EventIn(events', Event("settle", "commits", -1, "resolved", NoSnapshot))
            => fetching'["commits"] = <<>>]_vars

\* A second, direct call of the commit refetch joined the execution in flight.
C6_Witness ==
  /\ events = <<Call("commits", "joined")>>
  /\ Len(fetching["commits"]) = 1

\* An operation is running and has been for less than the hold-off period.
InHoldOff ==
  /\ runningOperation # None
  /\ now - runningOperationStartTime < configHoldOffRefreshMs

\* C7: inside the hold-off period of a running operation, a change
\* notification that is not a force poll calls and starts no fetch.
C7_HoldOffSuppressesNotifications ==
  [][(InHoldOff /\ \E i \in DOMAIN events' :
                     events'[i].ev = "callback" /\ events'[i].res # "force") =>
       /\ fetching' = fetching
       /\ \A i \in DOMAIN events' : events'[i].ev # "call"]_vars

\* A repository-state notification arrived inside the hold-off period while
\* no fetch was in flight, and none was started.
C7_Witness ==
  /\ InHoldOff
  /\ \A k \in Kinds : fetching[k] = <<>>
  /\ events = <<Event("callback", "everything", -1, "undefined", NoSnapshot)>>

\* C8: a force poll always calls back for everything: each of the three
\* fetches is called and is in flight afterwards, and the time of the last
\* fetch is now, whatever the time since the last fetch, the page visibility
\* and the hold-off.
C8_ForcePollRefetchesEverything ==
  [][EventIn(events', Event("poll", "", -1, "force", NoSnapshot)) =>
       /\ EventIn(events', Event("callback", "everything", -1, "force", NoSnapshot))
       /\ \A k \in Kinds :
            /\ EventIn(events', Call(k, "started")) \/ EventIn(events', Call(k, "joined"))
            /\ fetching'[k] # <<>>
       /\ lastFetch' = now']_vars

\* A force poll started all three fetches with the page hidden, inside the
\* hold-off period of a running operation.
C8_Witness ==
  /\ EventIn(events, Event("poll", "", -1, "force", NoSnapshot))
  /\ InHoldOff
  /\ pageState = "hidden"
  /\ \A k \in Kinds : EventIn(events, Call(k, "started"))

\* C9: when the log command succeeds and no commit is parsed from it, every
\* subscriber is sent the error snapshot NoCommitsFetched and nothing else, and
\* the cached snapshot stays; a value snapshot never holds an empty list.
C9_NoCommitsIsAnError ==
  /\ [][EventIn(events', Event("parsed", "commits", 0, "", NoSnapshot)) =>
          LET error == ErrorSnapshot(fetching["commits"][1].start, now',
                                     ErrorShortMessages_NoCommitsFetched)
          IN /\ smartlogCommits' = smartlogCommits
             /\ \A l \in subscribers["commits"] :
                  EventIn(events', Event("emit", "commits", l, "", error))
             /\ \A i \in DOMAIN events' :
                  events'[i].ev = "emit" => events'[i].snap = error]_vars
  /\ [](smartlogCommits.type = "value" => smartlogCommits.val # <<>>)

\* No commit was parsed, every listener was sent the error, and the cache still
\* holds the earlier commits.
C9_Witness ==
  /\ EventIn(events, Event("parsed", "commits", 0, "", NoSnapshot))
  /\ smartlogCommits.type = "value"
  /\ \A l \in Subs \cup {OwnListener} :
       \E i \in DOMAIN events :
         /\ events[i].ev = "emit"
         /\ events[i].to = l
         /\ events[i].snap.err = ErrorShortMessages_NoCommitsFetched

\* The value of kind k the Repository holds, and whether it holds one.
CurrentValue(k) ==
  CASE k = "commits" -> smartlogCommits
    [] k = "uncommitted" -> uncommittedChanges
    [] k = "conflicts" -> mergeConflicts

HasCurrentValue(k) ==
  IF k = "conflicts" THEN mergeConflicts.state # "none" ELSE CurrentValue(k).type # "none"

\* C11 as stated: a listener that subscribes to a kind whose current value
\* exists is called with that value in the subscribing step.
C11_NewSubscriberGetsCurrentValue ==
  [][\A k \in Kinds, l \in Subs :
       (l \notin subscribers[k] /\ l \in subscribers'[k] /\ HasCurrentValue(k)) =>
         EventIn(events', Event("emit", k, l, "", CurrentValue(k)))]_vars

\* The provider's diff-summaries listener ran in the step.
DiffSummariesArrived(log) ==
  \E i \in DOMAIN log : log[i].ev = "diffSummaries"

\* Some commit of the cached list has another review identifier in the next
\* state.
ReviewIdChanged ==
  /\ smartlogCommits.type = "value"
  /\ smartlogCommits'.type = "value"
  /\ \E j \in DOMAIN smartlogCommits.val :
       smartlogCommits'.val[j].diffId # smartlogCommits.val[j].diffId

C13_PublishedSnapshotNeverModified ==
  publishedCommits.type = "value" => smartlogCommits = publishedCommits

\* A command whose failure the fetch of kind k does not swallow has failed.
FetchFailed(log, k) ==
  \E i \in DOMAIN log : log[i].ev = "command" /\ log[i].kind = k /\ log[i].res # ""

\* C10: when a command of the commit fetch or of the uncommitted-changes
\* fetch fails, every subscriber of that kind is sent exactly one snapshot,
\* the error with the fetch's start time and the current time, nobody else
\* is sent anything, and the fetch's promise resolves.
C10_FetchFailureIsPublished ==
  [][\A k \in SnapshotKinds :
       FetchFailed(events', k) =>
         \E f \in CommandFailures :
           LET error == ErrorSnapshot(fetching[k][1].start, now', f)
               emits == {i \in DOMAIN events' : events'[i].ev = "emit"}
           IN /\ EventIn(events', Event("command", k, -1, f, NoSnapshot))
              /\ \A l \in subscribers[k] :
                   Cardinality({i \in emits : events'[i].to = l}) = 1
              /\ \A i \in emits :
                   /\ events'[i] = Event("emit", k, events'[i].to, "", error)
                   /\ events'[i].to \in subscribers[k]
              /\ EventIn(events', Event("settle", k, -1, "resolved", NoSnapshot))
              /\ \A i \in DOMAIN events' :
                   events'[i].ev = "settle" => events'[i].res = "resolved"]_vars

\* A commit fetch that took time failed, and each of three listeners was sent
\* the error with the two timestamps.
C10_Witness ==
  /\ FetchFailed(events, "commits")
  /\ \A l \in Subs \cup {OwnListener} :
       \E i \in DOMAIN events :
         /\ events[i].ev = "emit"
         /\ events[i].to = l
         /\ events[i].snap.type = "error"
         /\ events[i].snap.start < events[i].snap.done
         /\ events[i].snap.done = now

\* ---- C14
Callbacks(log) == SelectSeq(log, LAMBDA e : e.ev = "callback")

\* Three unanswered notifications that name the same ref, 50 ms apart at most.
RefBurst ==
  /\ Len(notified) = 3
  /\ \E r \in RefNames \cup {"HEAD"} : \A i \in 1..3 : notified[i].names = {r}
  /\ notified[3].at - notified[1].at <= 50

\* C14: three notifications for the same ref within 50 ms are answered by
\* exactly one callback, of kind commits, once 100 ms have passed since the last
\* of them, and by no callback before that.
C14_RefBurstYieldsOneCommitsCallback ==
  [][(RefBurst /\ Len(notified') < Len(notified)) =>
       /\ now >= notified[3].at + DebounceMs
       /\ notified' = <<>>
       /\ Len(Callbacks(events')) = 1
       /\ Callbacks(events')[1].kind = "commits"]_vars

\* ---- C15
\* The kind the classification gives a changed name.
ClassifiedKind(name) ==
  IF name \in ConflictMarkerNames THEN "merge conflicts"
  ELSE IF name = "index" THEN "uncommitted changes"
  ELSE "commits"

NotifiedNamesOf(q) == UNION {q[i].names : i \in DOMAIN q}

\* C15: a callback that answers filesystem notifications has the kind of one
\* of the names it answers (HEAD and refs: commits; index and working-tree
\* files: uncommitted changes; conflict markers: merge conflicts), and kind
\* everything is used by polls only.
C15_RawEventsClassified ==
  [][\A i \in DOMAIN events' :
       events'[i].ev = "callback" =>
         LET answered == NotifiedNamesOf(notified) \ NotifiedNamesOf(notified') IN
         IF \E j \in 1..(i - 1) : events'[j].ev = "poll"
           THEN events'[i].kind = "everything"
           ELSE IF answered = {}
             THEN events'[i].kind = "uncommitted changes"
             ELSE events'[i].kind \in {ClassifiedKind(c) : c \in answered}]_vars

\* ---- C16
\* A working-tree event is handled in this step.
EventSeen == throttle'.lastSeen = now /\ throttle' # throttle
EventPassed == EventSeen /\ Callbacks(events') # <<>>

\* C16: working-tree events are passed on unthrottled in the first stage, which
\* lasts until 5 events were seen; then at most one per 5 s, until 10 more were
\* seen; then at most one per 30 s; and an event after the stage's idle period
\* (5 s, 20 s, 30 s without events) is handled in a lower stage.
C16_ThreeStageThrottle ==
  [][EventSeen =>
       LET idle == throttle.lastSeen # NoTime /\
                   now - throttle.lastSeen >= <<5000, 20000, 30000>>[throttle.stage]
           handledIn == IF idle THEN 1 ELSE throttle.stage
           sinceLast == now - throttle.lastEmitted
       IN /\ handledIn = 1 => EventPassed
          /\ (handledIn = 2 /\ EventPassed) => sinceLast >= 5000
          /\ (handledIn = 2 /\ sinceLast >= 5000) => EventPassed
          /\ (handledIn = 3 /\ EventPassed) => sinceLast >= 30000
          /\ (idle /\ throttle.stage > 1) => throttle'.stage < throttle.stage
          /\ throttle'.stage > handledIn =>
               /\ throttle'.stage = handledIn + 1
               /\ throttle'.numSeen = 0
               /\ (IF idle THEN 0 ELSE throttle.numSeen) + 1 = <<5, 10>>[handledIn]
          /\ (handledIn < 3 /\ throttle'.stage <= handledIn) =>
               (IF idle THEN 0 ELSE throttle.numSeen) + 1 < <<5, 10>>[handledIn]]_vars

\* An event is passed on in the third stage, 30 s after the one before.
C16_Witness ==
  /\ throttle.stage = 3
  /\ throttle.lastEmitted = now
  /\ throttle.numSeen > 1
  /\ now >= 30000
  /\ Callbacks(events) # <<>>

\* ---- C17
\* The times since the last fetch that the poll compares with.
PollElapsedTimes ==
  {0, ON_FOCUS_REFETCH_THROTTLE, ON_VISIBLE_REFETCH_THROTTLE, FOCUSED_POLL_INTERVAL,
   VISIBLE_POLL_INTERVAL, DEFAULT_POLL_INTERVAL, HIDDEN_POLL_INTERVAL}

\* A poll of the given kind refetches when this much time has passed since the
\* last fetch, with the pages and the watcher in the given state.
Refetches(kind, v, healthy, elapsed) ==
  LET s == [State EXCEPT !.pageState = v, !.watchmanHealthy = healthy,
                         !.lastFetch = now - elapsed, !.events = <<>>]
  IN Callbacks(Poll(s, kind).events) # <<>>

\* The least such time.
RefetchInterval(kind, v, healthy) ==
  CHOOSE e \in PollElapsedTimes :
    /\ Refetches(kind, v, healthy, e)
    /\ \A d \in PollElapsedTimes : Refetches(kind, v, healthy, d) => e <= d

\* The polls that are not forced: of the timer, which have no kind, and of a
\* visibility change, which have the new visibility as their kind.
NonForcedPolls == {"timer", "visibility change"}
Interval(poll, v, healthy) ==
  RefetchInterval(IF poll = "timer" THEN "undefined" ELSE v, v, healthy)

\* C17 as stated: in every watcher-health state a non-forced poll refetches
\* sooner with a focused page than with a merely visible one, and sooner with
\* a visible page than with all pages hidden.
C17_IntervalOrderedInEveryHealthState ==
  \A healthy \in BOOLEAN, poll \in NonForcedPolls :
    /\ Interval(poll, "focused", healthy) < Interval(poll, "visible", healthy)
    /\ Interval(poll, "visible", healthy) < Interval(poll, "hidden", healthy)

\* C17 amended: the order is strict while the watcher is not healthy, and for
\* the polls of a visibility change; while the watcher is healthy the polls of
\* the timer use one interval for a focused and for a visible page, shorter
\* than the one for hidden pages. The timer is set to that interval.
C17_IntervalOrderedExceptHealthyTimer ==
  /\ \A healthy \in BOOLEAN, poll \in NonForcedPolls :
       /\ IF healthy /\ poll = "timer"
            THEN Interval(poll, "focused", healthy) = Interval(poll, "visible", healthy)
            ELSE Interval(poll, "focused", healthy) < Interval(poll, "visible", healthy)
       /\ Interval(poll, "visible", healthy) < Interval(poll, "hidden", healthy)
  /\ \A i \in DOMAIN events :
       (events[i].ev = "poll" /\ events[i].res # "force" /\ Callbacks(events) # <<>>) =>
         timeout - now = Interval("timer", pageState, watchmanHealthy)

\* The timer's poll refetches with a healthy watcher and a visible page.
C17_Witness ==
  /\ watchmanHealthy
  /\ pageState = "visible"
  /\ EventIn(events, Event("poll", "", -1, "undefined", NoSnapshot))
  /\ Callbacks(events) # <<>>
  /\ timeout - now = DEFAULT_POLL_INTERVAL

WellFormedRecord(r) ==
  /\ \A f \in DOMAIN r : \A i \in DOMAIN r[f] : r[f][i] # COMMIT_END_MARK
  /\ \A f \in DOMAIN r \ {"body"} : \A i \in DOMAIN r[f] : r[f][i] # FIELD_SEPARATOR
  /\ r.hash # <<>>
  /\ \A i \in DOMAIN r.hash : r.hash[i] \notin Whitespace

WellFormedLog ==
  /\ \A i \in DOMAIN gitLog.records : WellFormedRecord(gitLog.records[i])
  /\ \A i, j \in DOMAIN gitLog.records :
       gitLog.records[i].hash = gitLog.records[j].hash => i = j

\* C19: from a well-formed output of N records with pairwise distinct hashes
\* parseCommitInfoOutput returns N commits, in the order of the output, with
\* the hashes of the output.
C19_WellFormedLogParsesToItsRecords ==
  (gitLog.parsed.done /\ WellFormedLog) =>
    /\ Len(gitLog.parsed.commits) = Len(gitLog.records)
    /\ \A i \in DOMAIN gitLog.records :
         gitLog.parsed.commits[i].hash = gitLog.records[i].hash
    /\ \A i, j \in DOMAIN gitLog.parsed.commits :
         gitLog.parsed.commits[i].hash = gitLog.parsed.commits[j].hash => i = j

\* Two well-formed records, one with the separator in its body, were parsed.
C19_Witness ==
  /\ gitLog.parsed.done
  /\ WellFormedLog
  /\ Len(gitLog.records) = 2
  /\ \E i \in DOMAIN gitLog.records :
       \E k \in DOMAIN gitLog.records[i].body :
         gitLog.records[i].body[k] = FIELD_SEPARATOR
  /\ Len(gitLog.parsed.commits) = 2

\* ---- C20
\* C20: a parsed commit is the head exactly when its hash equals the head
\* hash given, so that as many commits are heads as have that hash; none and
\* several are parsed like one.
C20_IsDotIffHashIsHeadHash ==
  gitLog.parsed.done =>
    LET commits == gitLog.parsed.commits IN
    /\ \A i \in DOMAIN commits : commits[i].isDot <=> commits[i].hash = gitLog.headHash
    /\ Cardinality({i \in DOMAIN commits : commits[i].isDot}) =
         Cardinality({i \in DOMAIN gitLog.records :
                        LET parts == Split(Trim(GitLogFormat(gitLog.records[i])),
                                           COMMIT_END_MARK)
                        IN /\ Len(Split(parts[1], FIELD_SEPARATOR)) >= 7
                           /\ Trim(gitLog.records[i].hash) = gitLog.headHash})

\* Two commits with the head hash were parsed, one of them from a hash field
\* with a blank at its end.
C20_Witness ==
  /\ gitLog.parsed.done
  /\ Len(gitLog.parsed.commits) = 2
  /\ \A i \in 1..2 : gitLog.parsed.commits[i].isDot
  /\ \E i \in 1..2 : gitLog.records[i].hash # gitLog.headHash

\* ---- C21
\* C21: a parsed commit is public when its hash is in the set of public
\* ancestors given, and draft otherwise, also when no set is given; there is
\* no third phase.
C21_PhaseIsMembershipInPublicAncestors ==
  gitLog.parsed.done =>
    \A i \in DOMAIN gitLog.parsed.commits :
      LET c == gitLog.parsed.commits[i] IN
      /\ c.phase \in {"public", "draft"}
      /\ c.phase = "public" <=>
           (gitLog.publicAncestors.supplied /\ c.hash \in gitLog.publicAncestors.hashes)

\* A public and a draft commit were parsed against a set of public ancestors.
C21_Witness ==
  /\ gitLog.parsed.done
  /\ gitLog.publicAncestors.supplied
  /\ \E i, j \in DOMAIN gitLog.parsed.commits :
       /\ gitLog.parsed.commits[i].phase = "public"
       /\ gitLog.parsed.commits[j].phase = "draft"

\* ---- C22
\* The chunks of an output between end marks, and those that are malformed:
\* not blank and of fewer than seven fields.
Chunks(output) == Split(output, COMMIT_END_MARK)
Malformed(chunk) ==
  /\ Trim(chunk) # <<>>
  /\ Len(Split(Trim(chunk), FIELD_SEPARATOR)) < 7
WithoutMalformed(output) ==
  Join(SelectSeq(Chunks(output), LAMBDA chunk : ~Malformed(chunk)), COMMIT_END_MARK)

\* C22: a malformed record is skipped and logged, and the commits returned for
\* an output are those returned for the output without its malformed records.
C22_MalformedRecordsSkippedAndLogged ==
  gitLog.parsed.done =>
    /\ gitLog.parsed.commits =
         parseCommitInfoOutput(WithoutMalformed(gitLog.output), gitLog.headHash,
                               gitLog.publicAncestors)
    /\ \A i \in DOMAIN Chunks(gitLog.output) :
         Malformed(Chunks(gitLog.output)[i]) =>
           EventIn(gitLog.parsed.errors, Trim(Chunks(gitLog.output)[i]))

\* ---- C23
\* The names of the tokens the rules assign to a list, in the order of the tokens.
NamesOfList(tokens, list) ==
  LET chosen == SelectSeq(tokens, LAMBDA tok : tok.list = list)
  IN [i \in DOMAIN chosen |-> chosen[i].name]

\* C23: of the tokens of a refs decoration, 'HEAD -> name' gives the local ref
\* name, also when name holds a '/'; 'HEAD' alone is dropped; a token with a
\* '/' is a remote ref, unless it ends in '/HEAD' and is dropped; any other
\* token is a local ref; each list keeps the order of the tokens.
C23_RefDecorationsFollowTheRules ==
  refsParse.done =>
    /\ refsParse.bookmarks = NamesOfList(refsParse.tokens, "local")
    /\ refsParse.remoteBookmarks = NamesOfList(refsParse.tokens, "remote")

\* A decoration with a head arrow to a name with a '/', a remote ref and a
\* remote head was parsed.
C23_Witness ==
  /\ refsParse.done
  /\ Len(refsParse.tokens) = 3
  /\ refsParse.bookmarks = <<<<"o", "/", "m">>>>
  /\ refsParse.remoteBookmarks = <<<<"o", "/", "m">>>>
  /\ refsParse.tokens[3].text = <<"o", "/", "H", "E", "A", "D">>

\* ---- C24
\* A line with a rename or copy code and two paths.
RenameOrCopy(line) == line.code[1] \in {"R", "C"} /\ Len(line.code) > 1 /\ Len(line.paths) = 2

\* The place of a line's record among the records: lines without a path give none.
RecordOf(lines, i) == Len(SelectSeq(SubSeq(lines, 1, i), LAMBDA l : Len(l.paths) >= 1))

RenameRecord(line) == [path |-> line.paths[2], status |-> "A", copy |-> line.paths[1]]

\* C24 as stated: every line with a rename or copy code and two paths gives one
\* record, of the new path, status added and the old path as its source.
C24_RenameOrCopyLineIsAddWithSource ==
  changedFiles.done =>
    \A i \in DOMAIN changedFiles.lines :
      RenameOrCopy(changedFiles.lines[i]) =>
        /\ RecordOf(changedFiles.lines, i) \in DOMAIN changedFiles.filesSample
        /\ changedFiles.filesSample[RecordOf(changedFiles.lines, i)] =
             RenameRecord(changedFiles.lines[i])

\* C24 amended: so it is for the lines among the first 25 that give a record;
\* a later line gives no record and is counted only.
C24_RenameOrCopyLineIsAddWithSourceInSample ==
  changedFiles.done =>
    /\ Len(changedFiles.filesSample) <= 25
    /\ changedFiles.totalFileCount =
         Len(SelectSeq(changedFiles.lines, LAMBDA l : Len(l.paths) >= 1))
    /\ \A i \in DOMAIN changedFiles.lines :
         RenameOrCopy(changedFiles.lines[i]) =>
           IF RecordOf(changedFiles.lines, i) <= 25
             THEN /\ RecordOf(changedFiles.lines, i) \in DOMAIN changedFiles.filesSample
                  /\ changedFiles.filesSample[RecordOf(changedFiles.lines, i)] =
                       RenameRecord(changedFiles.lines[i])
             ELSE RecordOf(changedFiles.lines, i) \notin DOMAIN changedFiles.filesSample

\* A rename was parsed as the 25th record and a copy after it was left out.
C24_Witness ==
  /\ changedFiles.done
  /\ changedFiles.totalFileCount = 26
  /\ Len(changedFiles.filesSample) = 25
  /\ changedFiles.filesSample[25] = [path |-> <<"n">>, status |-> "A", copy |-> <<"o">>]
  /\ changedFiles.lines[26].code = <<"C", "7", "5">>

\* ---- C25
\* The status a code denotes.
UnmergedCodes == {<<"U", "U">>, <<"A", "A">>, <<"D", "D">>, <<"A", "U">>, <<"U", "A">>, <<"D", "U">>, <<"U", "D">>}
DenotedStatus(code) ==
  IF code = <<"?", "?">> THEN "?"
  ELSE IF code = <<"!", "!">> THEN "!"
  ELSE IF code = <<" ", "M">> THEN "M"
  ELSE IF code \in UnmergedCodes THEN "U"
  ELSE "any"

\* C25: each status line gives one changed file, of the path of the line and
\* of the status its code denotes: ?? untracked, !! missing, ' M' modified, and
\* UU, AA, DD, AU, UA, DU, UD unmerged.
C25_StatusLinesGiveTheDenotedStatus ==
  (uncommittedChanges.type = "value" /\ statusLines # <<>>) =>
    /\ Len(uncommittedChanges.val) = Len(statusLines)
    /\ \A i \in DOMAIN statusLines :
         /\ uncommittedChanges.val[i].path = statusLines[i].path
         /\ DenotedStatus(statusLines[i].code) # "any" =>
              uncommittedChanges.val[i].status = DenotedStatus(statusLines[i].code)


\* ---- C26
\* C26: an operation that predicts uncommitted changes returns no applier
\* exactly when applying its prediction would leave the observed uncommitted
\* changes as they are, and returns an applier in every other case.
C26_PredictionDroppedExactlyWhenReflected ==
  preview.done =>
    (preview.returned = "undefined"
       <=> func(preview.operation, preview.uncommittedChanges, preview.uncommittedChanges)
             = preview.uncommittedChanges)


\* ---- C27
\* The file-list placeholders among the arguments of the operation.
FileLists == {i \in DOMAIN opArgs.operation.args :
                opArgs.operation.args[i].type = "repo-relative-file-list"}
BadRevset == \E i \in DOMAIN opArgs.operation.args :
               /\ opArgs.operation.args[i].type = "exact-revset"
               /\ opArgs.operation.args[i].revset[1] = "-"

\* The file a path names when used from a directory, as segments from the
\* file system root.
RECURSIVE Resolve(_, _)
Resolve(dir, segments) ==
  IF segments = <<>> THEN dir
  ELSE IF Head(segments) = <<".", ".">>
    THEN Resolve(SubSeq(dir, 1, Len(dir) - 1), Tail(segments))
    ELSE Resolve(Append(dir, Head(segments)), Tail(segments))

\* C27: a file-list placeholder gives the one argument --pathspec-from-file=-
\* and none of its paths as arguments; its paths are given on standard input,
\* one per line. If the operation has a standard input already, or has a second
\* file-list placeholder, resolving the arguments fails and no process is
\* spawned.
C27_FileListGoesToStdin ==
  opArgs.done =>
    /\ (FileLists # {} /\ (opArgs.operation.stdin.set \/ Cardinality(FileLists) >= 2)) =>
          opArgs.threw /\ ~opArgs.spawned
    /\ (Cardinality(FileLists) = 1 /\ ~opArgs.operation.stdin.set /\ ~BadRevset) =>
          ~opArgs.threw
    /\ (FileLists # {} /\ ~opArgs.threw) =>
          /\ opArgs.spawned
          /\ Len(opArgs.args) = Len(opArgs.operation.args)
          /\ \A i \in FileLists :
               LET paths == opArgs.operation.args[i].paths
                   lines == IF opArgs.stdin.text = <<>> THEN <<>>
                            ELSE Split(opArgs.stdin.text, "\n")
               IN /\ opArgs.args[i] = PathspecFromFile
                  /\ opArgs.stdin.set
                  /\ Len(lines) = Len(paths)
                  /\ \A j \in DOMAIN paths :
                       Resolve(opArgs.cwd, Split(lines[j], "/"))
                         = repoRoot \o Split(paths[j], "/")
                  /\ paths # <<>> => opArgs.input = opArgs.stdin

\* An operation with a file list of two paths, between two other arguments, was
\* spawned from the directory s with the two paths on its standard input.
C27_Witness ==
  /\ opArgs.done
  /\ opArgs.spawned
  /\ opArgs.cwd = repoRoot \o <<<<"s">>>>
  /\ Len(opArgs.operation.args) = 3
  /\ FileLists = {2}
  /\ opArgs.args[2] = PathspecFromFile
  /\ opArgs.input = Stdin(<<"a", "\n", ".", ".", "/", "b">>)


\* ---- C28
\* C28: the progress reported for an operation whose process was spawned is
\* one 'spawn' first, then chunks of stdout and stderr, then, once the process
\* has ended (with success, with a failure or killed after an abort), one
\* 'exit' with how it ended, last; no chunk comes before the spawn or after the
\* exit.
C28_ProgressIsSpawnChunksExit ==
  \A o \in Ops :
    LET p == opProgress[o].reported IN
    /\ (p # <<>>) <=> (o \in everSpawned)
    /\ p # <<>> => p[1].what = "spawn"
    /\ \A i \in DOMAIN p :
         /\ p[i].what = "spawn" => i = 1
         /\ p[i].what = "exit" => (i = Len(p) /\ i > 1 /\ p[i].res = opProgress[o].exited)
         /\ (1 < i /\ i < Len(p)) => p[i].what \in {"stdout", "stderr"}
    /\ (o \in everSpawned /\ o \notin procs) =>
         /\ opProgress[o].exited \in {"exit0", "exitNonZero", "killed"}
         /\ p[Len(p)].what = "exit"
    /\ o \in procs => p[Len(p)].what # "exit"

\* The process of an aborted operation wrote to stdout and to stderr and was
\* killed; the process of another operation failed.
C28_Witness ==
  \E a, b \in Ops :
    /\ opProgress[a].reported = <<[what |-> "spawn", res |-> ""], [what |-> "stdout", res |-> ""],
                                  [what |-> "stderr", res |-> ""], [what |-> "exit", res |-> "killed"]>>
    /\ opProgress[b].exited = "exitNonZero"
    /\ opProgress[b].reported[Len(opProgress[b].reported)] = [what |-> "exit", res |-> "exitNonZero"]

\* ---- C29
\* The place of an event in a log, 0 if it is not there.
IndexIn(log, e) == IF EventIn(log, e) THEN CHOOSE i \in DOMAIN log : log[i] = e ELSE 0

\* C29: when the process of the running operation exits with a non-zero code,
\* 'exit' is reported for that operation with the non-zero code, the operation
\* is over, and a force poll is made after the report.
C29_FailureIsReportedAndPolled ==
  [][\A o \in Ops :
       (o \in procs /\ opProgress'[o].exited = "exitNonZero") =>
         /\ EventIn(events', Progress("exit", o, "exitNonZero"))
         /\ opProgress'[o].reported[Len(opProgress'[o].reported)]
              = [what |-> "exit", res |-> "exitNonZero"]
         /\ opState'[o] = "ran"
         /\ runningOperation' # o
         /\ o \in polled'
         /\ IndexIn(events', Event("poll", "", -1, "force", NoSnapshot))
              > IndexIn(events', Progress("exit", o, "exitNonZero"))]_vars

\* The process of an operation has just failed: the failure was reported, a
\* force poll was made, and the operation that was queued behind it runs.
C29_Witness ==
  \E o \in Ops :
    /\ opProgress[o].exited = "exitNonZero"
    /\ EventIn(events, Progress("exit", o, "exitNonZero"))
    /\ EventIn(events, Event("poll", "", -1, "force", NoSnapshot))
    /\ o \in polled
    /\ runningOperation \notin {None, o}


\* ---- C30
\* The directories of a path: its prefixes that end with the separator.
DirectoriesOf(path) == {SubSeq(path, 1, i) : i \in {j \in DOMAIN path : path[j] = "/"}}

\* The directories every path of the list is in.
CommonDirectories(filePaths) ==
  IF filePaths = <<>> THEN {}
  ELSE {d \in DirectoriesOf(filePaths[1]) :
          \A i \in DOMAIN filePaths : d \in DirectoriesOf(filePaths[i])}

\* C30: the result of findMaxCommonPathPrefix is "" when no directory holds
\* every path of the list, and otherwise the longest directory that holds
\* every path, ending with the separator; it is never part of a segment, and
\* never the path of a file of the list.
C30_ResultIsLongestCommonDirectory ==
  pathPrefix.done =>
    LET common == CommonDirectories(pathPrefix.filePaths)
    IN IF common = {}
         THEN pathPrefix.result = <<>>
         ELSE /\ pathPrefix.result \in common
              /\ \A d \in common : Len(d) <= Len(pathPrefix.result)


\* ---- C40
RevsetTypes == {"exact-revset", "succeedable-revset", "optimistic-revset"}

\* C40: when an argument of the operation is a commit reference of any of the
\* three kinds whose revset begins with "-", resolving the arguments fails and
\* no process is spawned; no argument made of a commit reference begins with
\* "-".
C40_RevsetIsNeverAnOption ==
  opArgs.done =>
    \A i \in DOMAIN opArgs.operation.args :
      LET arg == opArgs.operation.args[i] IN
      (arg.type \in RevsetTypes /\ StartsWith(arg.revset, <<"-">>)) =>
        opArgs.threw /\ ~opArgs.spawned


Published(log, k) == SelectSeq(log, LAMBDA e : e.ev = "emit" /\ e.kind = k)

\* C32: whenever a snapshot of commits or of uncommitted changes is given to
\* the listeners, value or error, the Repository holds that snapshot
\* afterwards, so that getSmartlogCommits, getHeadCommit and
\* getUncommittedChanges answer from the snapshot published last.
C32_GettersGiveTheLastPublishedSnapshot ==
  [][\A k \in SnapshotKinds :
       LET published == Published(events', k) IN
       published # <<>> => CurrentValue(k)' = published[Len(published)].snap]_vars


\* ---- C33
\* The fetches a callback of a kind makes.
FetchesOf(kind) ==
  CASE kind = "uncommitted changes" -> {"uncommitted"}
    [] kind = "commits" -> {"commits"}
    [] kind = "merge conflicts" -> {"conflicts"}
    [] OTHER -> Kinds

\* C33: a change notification that is not a force poll and comes when no
\* operation is running, or when the running operation has been running for the
\* hold-off period or longer, calls the fetches of its kind.
C33_HoldOffCoversTheStartOnly ==
  [][\A i \in DOMAIN events' :
       (/\ events'[i].ev = "callback"
        /\ events'[i].res # "force"
        /\ \/ runningOperation' = None
           \/ now' - runningOperationStartTime' >= configHoldOffRefreshMs) =>
         \A k \in FetchesOf(events'[i].kind) :
           EventIn(events', Call(k, "started")) \/ EventIn(events', Call(k, "joined"))]_vars

\* An operation has been running for the hold-off period, and a notification
\* that is not a force poll has started a fetch.
C33_Witness ==
  /\ runningOperation # None
  /\ now - runningOperationStartTime >= configHoldOffRefreshMs
  /\ \E i \in DOMAIN events : events[i].ev = "callback" /\ events[i].res # "force"
  /\ \E k \in Kinds : EventIn(events, Call(k, "started"))


\* ---- C34
\* The conflict checks whose status command is in flight.
StatusInFlight(f) ==
  {i \in DOMAIN f["conflicts"] :
     /\ f["conflicts"][i].phase = "status"
     /\ f["conflicts"][i].data[2] \in DOMAIN ConflictIndicators}

\* C34: the conflict state becomes 'loading' only from 'none', in a step after
\* which a check that found a marker file has its status command in flight; it
\* is 'loading' only while such a status command is in flight; and when a
\* check completes, its status command failed or not, the state is 'none' or
\* 'loaded' with at least one conflicted file.
C34_LoadingOnlyWhileStatusInFlight ==
  /\ [](mergeConflicts.state = "loading" => StatusInFlight(fetching) # {})
  /\ [][(mergeConflicts'.state = "loading" /\ mergeConflicts.state # "loading") =>
          (/\ mergeConflicts.state = "none"
           /\ StatusInFlight(fetching) = {}
           /\ StatusInFlight(fetching') # {})]_vars
  /\ [][EventIn(events', Event("settle", "conflicts", -1, "resolved", NoSnapshot)) =>
          (\/ mergeConflicts'.state = "none"
           \/ mergeConflicts'.state = "loaded" /\ mergeConflicts'.files # <<>>)]_vars

\* A check has completed whose status command failed,
\* and the state is 'none'.
C34_Witness ==
  /\ \E i \in DOMAIN events :
       events[i].ev = "command" /\ events[i].kind = "conflicts" /\ events[i].res # ""
  /\ EventIn(events, Event("settle", "conflicts", -1, "resolved", NoSnapshot))
  /\ mergeConflicts.state = "none"


\* ---- C35
\* C35: when the conflict check and the fetch of uncommitted changes were given
\* the same output of git status, every path among the files of a loaded
\* conflict state is a changed file of status 'U' (unmerged) in the snapshot
\* of uncommitted changes.
C35_ConflictedFilesAreUnmerged ==
  (/\ mergeConflicts.state = "loaded"
   /\ uncommittedChanges.type = "value"
   /\ conflictStatusLines = statusLines) =>
    \A i \in DOMAIN mergeConflicts.files :
      \E j \in DOMAIN uncommittedChanges.val :
        /\ uncommittedChanges.val[j].path = mergeConflicts.files[i].path
        /\ uncommittedChanges.val[j].status = "U"


\* ---- C39
\* The calls of the callback of head subscriber l in a log.
HeadCalls(log, l) == {i \in DOMAIN log : log[i].ev = "head" /\ log[i].to = l}

\* C39: a head subscriber is called once when it subscribes if the cached
\* snapshot has a head, and not if it has none; afterwards it is called at most
\* once a step, only in a step that publishes a value snapshot with a head,
\* with the hash of that head, and only when that hash is not the hash it was
\* last called with.
C39_HeadCallbackOnlyOnNewHash ==
  [][\A l \in Subs :
       LET calls == HeadCalls(events', l)
       IN /\ Cardinality(calls) <= 1
          /\ (~headSubscribers[l].on /\ headSubscribers'[l].on) =>
               (/\ calls # {} <=> getHeadCommit(State).known
                /\ \A i \in calls : events'[i].res = getHeadCommit(State).hash)
          /\ ~(~headSubscribers[l].on /\ headSubscribers'[l].on) =>
               \A i \in calls :
                 /\ headSubscribers[l].on
                 /\ events'[i].res # headSubscribers[l].delivered
                 /\ \E j \in DOMAIN events' :
                      /\ events'[j].ev = "emit"
                      /\ events'[j].kind = "commits"
                      /\ events'[j].snap.type = "value"
                      /\ FindDot(events'[j].snap) = [known |-> TRUE, hash |-> events'[i].res]]_vars

\* A snapshot with a head was published to two head subscribers: one had been
\* called with another hash and was called with the new one, the other had
\* been called with the same hash and was not called.
C39_Witness ==
  \E l1, l2 \in Subs :
    /\ headSubscribers[l1].on /\ headSubscribers[l2].on
    /\ \E j \in DOMAIN events : events[j].ev = "emit" /\ events[j].kind = "commits"
                                 /\ events[j].snap.type = "value"
    /\ HeadCalls(events, l1) # {}
    /\ HeadCalls(events, l2) = {}
    /\ headSubscribers[l2].delivered = headSubscribers[l1].delivered


\* ---- C36
\* C36: when no set-up of the file-change subscription is in flight (and none
\* has failed), the subscription is there exactly when the reference count is
\* greater than zero.
C36_SubscribedIffReferenced ==
  (watcher.setups = 0 /\ ~watcher.failed) =>
    (watcher.subscribed <=> watcher.refcount > 0)

\* ---- C37
\* C37: once the Repository is disposed no poll timer is pending, and no step
\* after the disposal calls the change callback.
C37_NoTimerNoCallbackAfterDispose ==
  /\ [](watcher.disposed => watcher.pending = 0)
  /\ [][watcher.disposed => \A i \in DOMAIN events' : events'[i].ev # "callback"]_vars

\* ---- C38
\* C38: from construction until the Repository is disposed exactly one poll
\* timer is pending, and it is the one this.timeout holds.
C38_ExactlyOnePollTimer ==
  ~watcher.disposed => (watcher.pending = 1 /\ watcher.handle = "pending")

\* A poll that did not refetch has replaced the armed timer.
C38_Witness ==
  /\ ~watcher.disposed
  /\ \E i \in DOMAIN events : events[i].ev = "poll"
  /\ \A i \in DOMAIN events : events[i].ev # "callback"
  /\ watcher.pending = 1
  /\ timeout > now

====
